---------------------------- MODULE Spec2Model ----------------------------
(***************************************************************************)
(* A model of the reusable core of the ADO test reporting scripts          *)
(* (test_cases_by_top_suite_patched3.py):                                  *)
(*   - the versioned pagination client  get_json_paginated_fallback,       *)
(*   - the outcome reconciler           worse / OUTCOME_ORDER,             *)
(*   - the hierarchy resolver           path_for / top_ancestor,           *)
(*   - plan resolution                  resolve_plan_id_by_name,           *)
(*   - the aggregation loop of          main.                              *)
(* Each component has its own specification over the shared variables; a   *)
(* specification leaves the variables of the other components untouched.   *)
(***************************************************************************)
EXTENDS Integers, Sequences, FiniteSets, TLC

VARIABLES
    \* ---- get_json_paginated_fallback ----
    pc,         \* "idle" | "request" | "returned" | "failed"
    versions,   \* the ordered list of candidate api versions
    vi,         \* position of `ver` in `versions` (the for loop)
    out,        \* the accumulator of the version being tried
    token,      \* the continuation token to send with the next request
    last,       \* text of the last error response
    result,     \* the returned collection (PyNone until the function returns)
    exitMsg,    \* the SystemExit message (PyNone unless raised)
    req,        \* the request issued last: [ver, token]
    served,     \* history: the bodies served under the version being tried
    errs,       \* history: the error response that ended each abandoned version
    dropped,    \* history: some abandoned version had accumulated records
    prevHdr,    \* history: the x-ms-continuationtoken header of the response
                \* before, under the version being tried (PyNone if none)
    \* ---- the outcome reconciler (one bucket's outcome) ----
    rpc,        \* "off" | "fold" | "done"
    raw,        \* history: the raw outcomes folded in so far, in order
    worst,      \* bucket["outcome"]
    emitted,    \* the row's Outcome (PyNone until the row is built)
    \* ---- the hierarchy resolver (path_for, top_ancestor) ----
    suites,     \* the suite listing, as list_suites returns it
    hpc,        \* "off" | "ready" | "path" | "top" | "keyerror"
    hcall,      \* the call in progress or returned last: [fn, sid]
    cur,        \* the suite the walk stands on (an id, or PyNone)
    parts,      \* path_for: the names collected so far, leaf first
    visited,    \* history: the ids the walk has left behind, in order
    cache,      \* path_for's cache: id -> path (PyNone where not cached)
    hret,       \* the value returned last (PyNone before any return)
    \* ---- resolve_plan_id_by_name ----
    plans,      \* the plans listed by the service: [id, name], names as
                \* sequences of characters
    wanted,     \* the plan_name argument, a sequence of characters
    ppc,        \* "off" | "call" | "returned" | "notfound"
    pid,        \* the returned plan id (PyNone unless returned)
    \* ---- main: the aggregation loop and the rows (shares `suites`) ----
    apc,        \* "off" | "loop" | "done"
    si,         \* position in `suites` of the suite whose points are merged
    npts,       \* points handled so far, over all suites
    agg,        \* {topId: {testCaseId: {"name", "outcome", "paths"}}}
    rows,       \* the rows built from agg (empty until they are built)
    obs,        \* history: the points merged, as [sid, tc, outcome]
    \* ---- main, from plan resolution to the CSV files ----
    mpc,        \* "off" | "plan" | "suites" | "runs" | "results" | "points"
                \* | "merge" | "done" | "aborted"
    msuites,    \* suites, as list_suites returned it
    msi,        \* position in msuites of the suite of the for loop
    mnpts,      \* points handled so far, over all suites
    magg,       \* agg
    runsLeft,   \* the runs of runs[:50] whose results are still to be fetched
    latest_by_point, \* the backfill map: pointId -> [outcome, ts]
    bf,         \* how the backfill ended: "none" | "ok" | "warned"
    log,        \* history: the points returned, in order, as [sid, p]
    csvs,       \* the per-top-level-suite CSVs written, in order: [top, file, rows]
    combined,   \* the combined CSV files written: at most one, a set of rows
    failedAt,   \* history: the mandatory step that failed (PyNone if none)
    \* ---- get_json ----
    gpc,        \* "off" | "call" | "sent" | "returned" | "raised"
    gurl,       \* the url argument
    gparams,    \* params or {}: the query parameters, as <<key, value>> pairs
    gresp,      \* the response received (PyNone before it)
    greqs,      \* history: the requests issued by this call
    gret,       \* the returned body (PyNone unless returned)
    gexit,      \* the SystemExit message (PyNone unless raised)
    \* ---- resolve_point_outcome and the outcome main merges ----
    qpc,        \* "off" | "point" | "resolved" | "fed"
    point,      \* the four outcome fields of the point
    resolved,   \* point["resolvedOutcome"]
    fed,        \* the outcome merged into the bucket
    \* ---- test_case_burndown.py main: the flat results per top-level suite ----
    fpc,        \* "off" | "points" | "runs" | "results" | "done" | "keyerror"
                \* | "aborted"
    fsuites,    \* suites, as list_suites returned it
    fsi,        \* position in fsuites of the suite of the for loop
    top_points, \* {topId: [pointId]}
    point_to_top, \* {pointId: topId}
    fruns,      \* the runs whose results are still to be fetched
    results_by_top, \* {topId: [result]}
    dfs,        \* the frames written, one per top-level suite (empty until then)
    flisted,    \* history: the points listed, as [sid, pts]
    ffetched    \* history: the results fetched, as returned by the service

pagVars ==
    <<pc, versions, vi, out, token, last, result, exitMsg, req, served, errs, dropped,
      prevHdr>>

recVars == <<rpc, raw, worst, emitted>>

hierVars == <<suites, hpc, hcall, cur, parts, visited, cache, hret>>

planVars == <<plans, wanted, ppc, pid>>

aggVars == <<apc, si, npts, agg, rows, obs>>

mainVars ==
    <<mpc, msuites, msi, mnpts, magg, runsLeft, latest_by_point, bf, log, csvs,
      combined, failedAt>>

getVars == <<gpc, gurl, gparams, gresp, greqs, gret, gexit>>

ptVars == <<qpc, point, resolved, fed>>

flatVars ==
    <<fpc, fsuites, fsi, top_points, point_to_top, fruns, results_by_top, dfs,
      flisted, ffetched>>

vars ==
    <<pagVars, recVars, hierVars, planVars, aggVars, mainVars, getVars, ptVars,
      flatVars>>

\* What the actions of one part leave alone: the variables of the others.
pagOthers ==
    <<recVars, hierVars, planVars, aggVars, mainVars, getVars, ptVars, flatVars>>
recOthers ==
    <<pagVars, hierVars, planVars, aggVars, mainVars, getVars, ptVars, flatVars>>
hierOthers ==
    <<pagVars, recVars, planVars, aggVars, mainVars, getVars, ptVars, flatVars>>
planOthers ==
    <<pagVars, recVars, hierVars, aggVars, mainVars, getVars, ptVars, flatVars>>
aggOthers ==
    <<pagVars, recVars, planVars, hpc, hcall, cur, parts, visited, cache, hret,
      mainVars, getVars, ptVars, flatVars>>
mainOthers ==
    <<pagVars, recVars, hierVars, planVars, aggVars, getVars, ptVars, flatVars>>
getOthers ==
    <<pagVars, recVars, hierVars, planVars, aggVars, mainVars, ptVars, flatVars>>
ptOthers ==
    <<pagVars, recVars, hierVars, planVars, aggVars, mainVars, getVars, flatVars>>
flatOthers ==
    <<pagVars, recVars, hierVars, planVars, aggVars, mainVars, getVars, ptVars>>

\* Python's None (distinct from the strings "None" and "").
PyNone == "<None>"

(***************************************************************************)
(* Bounds of the model.                                                    *)
(***************************************************************************)
MaxVersions == 3    \* longest candidate version list
MaxPages    == 2    \* most pages with a continuation token per version
MaxChunk    == 2    \* most records in one page
MaxObs      == 3    \* most outcomes reconciled into one bucket
MaxSuites   == 3    \* most suites in a listing
MaxWalk     == 5    \* most steps of one walk up the parents the model follows
MaxPlans    == 2    \* most plans listed
MaxNameLen  == 2    \* most characters in a plan name
MaxPoints   == 2    \* most points the suites of the plan return, in all

\* The candidate versions, most preferred first (VER_POINTS has four).
VER_POINTS == <<"7.1-preview.2", "7.1-preview.1", "7.0", "6.0">>

URL == "/_apis/test/points"

Range(s) == {s[i] : i \in DOMAIN s}

(***************************************************************************)
(* The remote service.  A response has a status, a text, a decoded JSON    *)
(* body and the x-ms-continuationtoken header.  A body either lacks the    *)
(* value key, or holds a list of n records under it, or holds one object   *)
(* that is not a list.  The records served are named by where the service  *)
(* served them: <<version, page, index>>.                                  *)
(***************************************************************************)
Bodies ==
    {[kind |-> "missing", n |-> 0], [kind |-> "scalar", n |-> 1]}
        \cup {[kind |-> "list", n |-> k] : k \in 0..MaxChunk}

ErrResponses ==
    {[status |-> 401, text |-> "denied",    body |-> [kind |-> "missing", n |-> 0], hdr |-> PyNone],
     [status |-> 404, text |-> "not found", body |-> [kind |-> "missing", n |-> 0], hdr |-> PyNone],
     [status |-> 500, text |-> "oops",      body |-> [kind |-> "missing", n |-> 0], hdr |-> PyNone]}

OkResponses ==
    {[status |-> 200, text |-> "", body |-> b, hdr |-> t] :
        b \in Bodies, t \in {PyNone, "", "t1", "t2"}}

Responses == ErrResponses \cup OkResponses

\* Python truthiness of an optional string.
Truthy(s) == s # PyNone /\ s # ""

\* The value the service puts under the value key of page `page` of `ver`.
ValueOf(body, ver, page) ==
    IF body.kind = "list" THEN [i \in 1..body.n |-> <<ver, page, i>>]
    ELSE <<ver, page, 1>>

\* The chunk with a body without value key taken for one record.
ChunkOfBodyItself(body, ver, page) ==
    IF body.kind = "list" THEN ValueOf(body, ver, page)
    ELSE <<ValueOf(body, ver, page)>>

\* chunk = body.get(value_key, body if isinstance(body, list) else [])
\* out.extend(chunk if isinstance(chunk, list) else [chunk])
ChunkOf(body, ver, page) ==
    IF body.kind = "missing" THEN <<>>
    ELSE IF body.kind = "list" THEN ValueOf(body, ver, page)
    ELSE <<ValueOf(body, ver, page)>>

\* f"{r.status_code} {r.text}"
ErrText(r) == ToString(r.status) \o " " \o r.text

\* last = f"{r.status_code} {r.text}": the error text kept after response r,
\* whatever error text `prev` was kept before.
LastFirstKept(prev, r) == IF prev = "" THEN ErrText(r) ELSE prev
LastAfterError(prev, r) == ErrText(r)

\* History entry of an abandoned version: the error response that ended it.
Abandoned(ver, r) == [ver |-> ver, status |-> r.status, text |-> r.text]

\* The accumulator a version is left with when one of its fetches errors
\* (out = [] before the break, and out = [] again at the next version).
OutKept(acc) == acc
AbandonedOut(acc) == <<>>

\* out.extend(chunk), with the chunk put in front instead.
ExtendFront(acc, chunk) == chunk \o acc

\* out.extend(chunk)
Extend(acc, chunk) == acc \o chunk

\* The query with the most preferred version whatever version is tried.
QueryFirstVersion(ver, tok) ==
    [ver |-> VER_POINTS[1], token |-> IF Truthy(tok) THEN tok ELSE PyNone]

\* The query without continuation token whatever token was returned.
QueryWithoutToken(ver, tok) == [ver |-> ver, token |-> PyNone]

\* q = dict(params); q["api-version"] = ver; if token: q["continuationToken"] = token
Query(ver, tok) == [ver |-> ver, token |-> IF Truthy(tok) THEN tok ELSE PyNone]

NoReq == [ver |-> PyNone, token |-> PyNone]

PagInit ==
    /\ pc = "idle"
    /\ \E n \in 0..MaxVersions : versions = SubSeq(VER_POINTS, 1, n)
    /\ vi = 0
    /\ out = <<>>
    /\ token = PyNone
    /\ last = ""
    /\ result = PyNone
    /\ exitMsg = PyNone
    /\ req = NoReq
    /\ served = <<>>
    /\ errs = <<>>
    /\ dropped = FALSE
    /\ prevHdr = PyNone

\* The for loop standing still on the version that failed.
SameVersion(i) == i

\* for ver in versions: the position of the version tried after the i-th
NextVersion(i) == i + 1

\* raise SystemExit(f"All versions failed for {url}\n{last}")
AllFailed(l) == "All versions failed for " \o URL \o "\n" \o l

\* Entering the function: last = "", then the first turn of the for loop.
Call ==
    /\ pc = "idle"
    /\ last' = ""
    /\ IF Len(versions) = 0
       THEN /\ pc' = "failed"
            /\ exitMsg' = AllFailed("")
            /\ vi' = vi
       ELSE /\ pc' = "request"
            /\ exitMsg' = exitMsg
            /\ vi' = 1
    /\ out' = <<>>
    /\ token' = PyNone
    /\ UNCHANGED <<versions, result, req, served, errs, dropped, prevHdr, pagOthers>>

\* One turn of the while loop whose response has status >= 400: the version
\* is abandoned; the for loop goes to the next version or runs out.
FetchError ==
    /\ pc = "request"
    /\ \E r \in Responses :
        /\ r.status >= 400
        /\ req' = Query(versions[vi], token)
        /\ last' = LastAfterError(last, r)
        /\ errs' = Append(errs, Abandoned(versions[vi], r))
        /\ dropped' = (dropped \/ Len(out) > 0)
        /\ served' = <<>>
        /\ prevHdr' = PyNone
        /\ out' = AbandonedOut(out)
        /\ token' = PyNone
        /\ IF vi < Len(versions)
           THEN /\ vi' = NextVersion(vi)
                /\ pc' = "request"
                /\ exitMsg' = exitMsg
           ELSE /\ vi' = vi
                /\ pc' = "failed"
                /\ exitMsg' = AllFailed(LastAfterError(last, r))
    /\ UNCHANGED <<versions, result, pagOthers>>

\* One turn of the while loop whose response is a page with a continuation
\* token: the page is appended and the loop goes on.
FetchPage ==
    /\ pc = "request"
    /\ Len(served) < MaxPages
    /\ \E r \in Responses :
        /\ r.status < 400
        /\ Truthy(r.hdr)
        /\ req' = Query(versions[vi], token)
        /\ served' = Append(served, r.body)
        /\ prevHdr' = r.hdr
        /\ out' = Extend(out, ChunkOf(r.body, versions[vi], Len(served) + 1))
        /\ token' = r.hdr
    /\ UNCHANGED <<pc, versions, vi, last, result, exitMsg, errs, dropped, pagOthers>>

\* One turn of the while loop whose response is a page without continuation
\* token: the page is appended and the accumulator returned.
FetchLast ==
    /\ pc = "request"
    /\ \E r \in Responses :
        /\ r.status < 400
        /\ ~Truthy(r.hdr)
        /\ req' = Query(versions[vi], token)
        /\ served' = Append(served, r.body)
        /\ prevHdr' = r.hdr
        /\ out' = Extend(out, ChunkOf(r.body, versions[vi], Len(served) + 1))
        /\ token' = r.hdr
        /\ result' = Extend(out, ChunkOf(r.body, versions[vi], Len(served) + 1))
        /\ pc' = "returned"
    /\ UNCHANGED <<versions, vi, last, exitMsg, errs, dropped, pagOthers>>

PagNext == Call \/ FetchError \/ FetchPage \/ FetchLast

\* The pagination client at rest, in the specifications of the other parts.
PagIdle ==
    /\ pc = "off" /\ versions = <<>> /\ vi = 0 /\ out = <<>> /\ token = PyNone
    /\ last = "" /\ result = PyNone /\ exitMsg = PyNone /\ req = NoReq
    /\ served = <<>> /\ errs = <<>> /\ dropped = FALSE /\ prevHdr = PyNone

\* The reconciler at rest.
RecIdle == rpc = "off" /\ raw = <<>> /\ worst = PyNone /\ emitted = PyNone

\* The hierarchy resolver at rest.
WalkIdle ==
    /\ hpc = "off" /\ hcall = [fn |-> PyNone, sid |-> PyNone]
    /\ cur = PyNone /\ parts = <<>> /\ visited = <<>> /\ cache = <<>> /\ hret = PyNone

HierIdle == suites = <<>> /\ WalkIdle

\* Plan resolution at rest.
PlanIdle == plans = <<>> /\ wanted = <<>> /\ ppc = "off" /\ pid = PyNone

\* The aggregation loop at rest.
AggIdle ==
    apc = "off" /\ si = 0 /\ npts = 0 /\ agg = <<>> /\ rows = {} /\ obs = {}

\* main at rest.
MainIdle ==
    /\ mpc = "off" /\ msuites = <<>> /\ msi = 0 /\ mnpts = 0 /\ magg = <<>>
    /\ runsLeft = <<>> /\ latest_by_point = <<>> /\ bf = "none" /\ log = <<>>
    /\ csvs = <<>> /\ combined = <<>> /\ failedAt = PyNone

\* get_json at rest.
GetIdle ==
    /\ gpc = "off" /\ gurl = PyNone /\ gparams = <<>> /\ gresp = PyNone /\ greqs = <<>>
    /\ gret = PyNone /\ gexit = PyNone

\* The point resolution at rest.
PtIdle == qpc = "off" /\ point = <<>> /\ resolved = PyNone /\ fed = PyNone

\* The flat results flow at rest.
FlatIdle ==
    /\ fpc = "off" /\ fsuites = <<>> /\ fsi = 0 /\ top_points = <<>>
    /\ point_to_top = <<>> /\ fruns = <<>> /\ results_by_top = <<>> /\ dfs = <<>>
    /\ flisted = <<>> /\ ffetched = <<>>

\* Everything at rest but one part.
OthersIdle == MainIdle /\ GetIdle /\ PtIdle /\ FlatIdle

PagSpecInit == PagInit /\ RecIdle /\ HierIdle /\ PlanIdle /\ AggIdle /\ OthersIdle

SpecPag == PagSpecInit /\ [][PagNext]_vars

(***************************************************************************)
(* Claims about get_json_paginated_fallback.                               *)
(***************************************************************************)

\* The records a body contributes, stated from the wire format: the list
\* under the value key, one object wrapped into a list, nothing when the key
\* is missing.
RECURSIVE PagesInOrder(_, _, _)
PagesInOrder(ver, bodies, k) ==
    IF k = 0 THEN <<>>
    ELSE PagesInOrder(ver, bodies, k - 1) \o
         (CASE bodies[k].kind = "list"    -> [i \in 1..bodies[k].n |-> <<ver, k, i>>]
            [] bodies[k].kind = "scalar"  -> << <<ver, k, 1>> >>
            [] bodies[k].kind = "missing" -> <<>>)

\* C1: the function returns exactly the in-order concatenation of the value
\* arrays of all pages of the first version, in list order, whose whole
\* pagination completes without an HTTP error: every earlier version was
\* ended by an error response, and no record served under an earlier version
\* is in the result.
C1_ReturnsFirstCompleteVersion ==
    pc = "returned" =>
        /\ result = PagesInOrder(versions[vi], served, Len(served))
        /\ Len(errs) = vi - 1
        /\ \A j \in 1..Len(errs) : errs[j].ver = versions[j] /\ errs[j].status >= 400
        /\ \A i \in 1..Len(result) : result[i][1] = versions[vi]

\* C1 witness: version A errors, version B serves two pages linked by a
\* continuation token; the result is page 1 of B followed by page 2 of B.
C1_Witness ==
    /\ pc = "returned"
    /\ Len(errs) = 1
    /\ Len(served) = 2
    /\ req.token = "t1"
    /\ result = << <<versions[2], 1, 1>>, <<versions[2], 1, 2>>, <<versions[2], 2, 1>> >>

\* C2: in every state the accumulator holds only records of pages fetched
\* under the version being tried, namely all of them in order; what an
\* abandoned version had accumulated is in no returned collection.
C2_NoMixedVersions ==
    /\ pc = "request" =>
          /\ out = PagesInOrder(versions[vi], served, Len(served))
          /\ \A i \in 1..Len(out) : out[i][1] = versions[vi]
    /\ pc = "returned" =>
          \A i \in 1..Len(result) : \A j \in 1..Len(errs) : result[i][1] # errs[j].ver
    /\ pc = "failed" => out = <<>> /\ result = PyNone

\* C2 witness: a version served pages with records and then errored,
\* and a later version returned a non-empty collection.
C2_Witness ==
    /\ pc = "returned"
    /\ dropped
    /\ Len(errs) >= 1
    /\ Len(result) >= 1

\* C3: when every candidate version errors the function returns no
\* collection and raises SystemExit, whose message carries the status and
\* the body of the error response of the last version of the list.
C3_AllFailedCarriesLastError ==
    /\ (pc = "failed" /\ Len(versions) > 0) =>
          /\ result = PyNone
          /\ Len(errs) = Len(versions)
          /\ errs[Len(errs)].ver = versions[Len(versions)]
          /\ last = ToString(errs[Len(errs)].status) \o " " \o errs[Len(errs)].text
          /\ exitMsg = "All versions failed for " \o URL \o "\n" \o last
    /\ (pc # "idle" /\ Len(errs) = Len(versions)) => pc = "failed" /\ exitMsg # PyNone
    /\ pc # "failed" => exitMsg = PyNone

\* C3 witness: two or more versions failed with different errors.
C3_Witness ==
    /\ pc = "failed"
    /\ Len(versions) >= 2
    /\ errs[1].status = 404
    /\ errs[Len(errs)].status = 500
    /\ last = "500 oops"


(***************************************************************************)
(* The outcome reconciler: OUTCOME_ORDER, worse, and the fold main makes   *)
(* of one bucket's outcome.                                                *)
(***************************************************************************)

\* The statuses with a precedence of their own, worst first.
Recognised == <<"Failed", "Blocked", "Paused", "Active", "NotApplicable", "Passed">>

\* What a point can carry as outcome: a recognised status, a table entry of
\* rank -1, None, or a status the table does not know.
RawOutcomes ==
    Range(Recognised) \cup {PyNone, "", "None", "NeverRun", "Inconclusive", "Error"}

\* OUTCOME_ORDER as its docstring orders it: None/empty above Passed.
OrderNoneAbovePassed(o) ==
    CASE o = "Failed"        -> 6
      [] o = "Blocked"       -> 5
      [] o = "Paused"        -> 4
      [] o = "Active"        -> 3
      [] o = "NotApplicable" -> 2
      [] o = "Passed"        -> 0
      [] o \in {PyNone, "", "None", "NeverRun"} -> 1
      [] OTHER               -> -1

\* OUTCOME_ORDER with a status it does not list ranked with Passed.
OrderUnknownAsPassed(o) ==
    CASE o = "Failed"        -> 6
      [] o = "Blocked"       -> 5
      [] o = "Paused"        -> 4
      [] o = "Active"        -> 3
      [] o = "NotApplicable" -> 2
      [] o = "Passed"        -> 0
      [] o \in {PyNone, "", "None", "NeverRun"} -> -1
      [] OTHER               -> 0

\* OUTCOME_ORDER.get(o, -1)
OUTCOME_ORDER(o) ==
    CASE o = "Failed"        -> 6
      [] o = "Blocked"       -> 5
      [] o = "Paused"        -> 4
      [] o = "Active"        -> 3
      [] o = "NotApplicable" -> 2
      [] o = "Passed"        -> 0
      [] o \in {PyNone, "", "None", "NeverRun"} -> -1
      [] OTHER               -> -1

\* worse with the tie going to the second argument.
WorseTieToSecond(a, b) == IF OUTCOME_ORDER(a) > OUTCOME_ORDER(b) THEN a ELSE b

\* The first argument whenever it is a recognised status.
WorseFirstIfRecognised(a, b) == IF OUTCOME_ORDER(a) >= 0 THEN a ELSE b

\* worse with the initial None of a bucket giving way to whatever comes first.
WorseFromNone(a, b) ==
    IF a = PyNone THEN b
    ELSE IF OUTCOME_ORDER(a) >= OUTCOME_ORDER(b) THEN a ELSE b

\* return a if va >= vb else b
worse(a, b) == IF OUTCOME_ORDER(a) >= OUTCOME_ORDER(b) THEN a ELSE b

\* info["outcome"] if info["outcome"] not in (None, "", "None") else "NeverRun"
EmittedOutcome(o) == IF o \notin {PyNone, "", "None"} THEN o ELSE "NeverRun"

RecInit == rpc = "fold" /\ raw = <<>> /\ worst = PyNone /\ emitted = PyNone

\* bucket["outcome"] = worse(bucket["outcome"], outcome)
Observe ==
    /\ rpc = "fold"
    /\ Len(raw) < MaxObs
    /\ \E o \in RawOutcomes :
        /\ worst' = worse(worst, o)
        /\ raw' = Append(raw, o)
    /\ UNCHANGED <<rpc, emitted, recOthers>>

\* The row is built: "Outcome": ... else "NeverRun".
Emit ==
    /\ rpc = "fold"
    /\ emitted' = EmittedOutcome(worst)
    /\ rpc' = "done"
    /\ UNCHANGED <<raw, worst, recOthers>>

RecNext == Observe \/ Emit

RecSpecInit == RecInit /\ PagIdle /\ HierIdle /\ PlanIdle /\ AggIdle /\ OthersIdle

SpecRec == RecSpecInit /\ [][RecNext]_vars

\* reconcile(sequence): worse folded left to right from None, then NeverRun
\* substituted for None/empty.
RECURSIVE FoldWorse(_, _)
FoldWorse(seq, k) == IF k = 0 THEN PyNone ELSE worse(FoldWorse(seq, k - 1), seq[k])

Reconcile(seq) == EmittedOutcome(FoldWorse(seq, Len(seq)))

Permuted(seq, p) == [i \in 1..Len(seq) |-> seq[p[i]]]

\* C4: reconciliation yields the same Outcome for every permutation of the
\* sequence of raw outcomes.
C4_ReconcileOrderIndependent ==
    rpc = "done" =>
        \A p \in Permutations(1..Len(raw)) : Reconcile(Permuted(raw, p)) = emitted

\* C4 witness: three different values, recognised and not, were reconciled.
C4_Witness ==
    /\ rpc = "done"
    /\ raw = <<"Inconclusive", "Passed", "Error">>
    /\ emitted = "Passed"

\* The positions of Recognised whose status occurs in seq.
Present(seq) == {i \in 1..Len(Recognised) : Recognised[i] \in Range(seq)}

Least(S) == CHOOSE i \in S : \A j \in S : i <= j

\* C5: reconciliation yields the highest-precedence recognised status present
\* (Failed > Blocked > Paused > Active > NotApplicable > Passed); a value that
\* is unrecognised or empty never wins over a recognised one; a sequence
\* without recognised status, the empty one included, yields NeverRun.
C5_HighestPrecedenceWins ==
    rpc = "done" =>
        /\ emitted = IF Present(raw) = {} THEN "NeverRun"
                     ELSE Recognised[Least(Present(raw))]
        /\ raw = <<>> => emitted = "NeverRun"
        /\ raw = <<"Passed">> => emitted = "Passed"
        /\ raw = <<"Passed", "Failed">> => emitted = "Failed"
        /\ raw = <<"Active", "Blocked">> => emitted = "Blocked"

\* C5 witness: a recognised status met an empty and an unrecognised value.
C5_Witness ==
    /\ rpc = "done"
    /\ raw = <<"", "NotApplicable", "Inconclusive">>
    /\ emitted = "NotApplicable"


(***************************************************************************)
(* The hierarchy resolver: build_suite_path_lookup.path_for and main's     *)
(* top_ancestor, over the listing list_suites returns (ids and parentIds   *)
(* are strings, parentId is None for a top-level suite).                   *)
(***************************************************************************)

\* The names of the suites, by position in the listing.
SuiteNames == <<"root", "mid", "leaf", "twig">>

\* s["id"] = str(s.get("id"))
SuiteId(i) == ToString(i)

\* The listings of n suites whose names are drawn from nameSets[i]: a parentId
\* is None, the id of a listed suite (itself included), or "0", an id the
\* listing does not hold.
Listings(n, nameSets) ==
    LET parents == [1..n -> {PyNone} \cup {SuiteId(j) : j \in 0..n}]
        names == {f \in [1..n -> UNION {nameSets[i] : i \in 1..n}] :
                     \A i \in 1..n : f[i] \in nameSets[i]}
    IN  {[i \in 1..n |-> [id |-> SuiteId(i), parentId |-> par[i], name |-> nm[i]]] :
            par \in parents, nm \in names}

\* by_id = {s["id"]: s for s in suites}
Ids(l) == {l[i].id : i \in DOMAIN l}
by_id(l, sid) == l[CHOOSE i \in DOMAIN l : l[i].id = sid]

\* by_id.get(pid) if pid is not None else None, as the id of that suite
ParentOrNone(l, sid) ==
    LET par == by_id(l, sid).parentId
    IN  IF par # PyNone /\ par \in Ids(l) THEN par ELSE PyNone

RECURSIVE Join(_, _)
\* sep.join(seq)
Join(sep, seq) ==
    IF Len(seq) = 0 THEN ""
    ELSE IF Len(seq) = 1 THEN seq[1]
    ELSE seq[1] \o sep \o Join(sep, Tail(seq))

\* parts as collected, leaf first (parts.reverse() left out).
NotReversed(seq) == seq

\* parts.reverse()
Reversed(seq) == [i \in 1..Len(seq) |-> seq[Len(seq) + 1 - i]]

HierInit ==
    /\ \E n \in 1..MaxSuites :
          suites \in Listings(n, [i \in 1..n |-> {SuiteNames[i]}])
    /\ hpc = "ready"
    /\ hcall = [fn |-> PyNone, sid |-> PyNone]
    /\ cur = PyNone
    /\ parts = <<>>
    /\ visited = <<>>
    /\ cache = [i \in DOMAIN suites |-> PyNone]
    /\ hret = PyNone

Pos(l, sid) == CHOOSE i \in DOMAIN l : l[i].id = sid

\* path_for(sid) up to its loop: a cached path is returned at once.
CallPathFor ==
    /\ hpc = "ready"
    /\ \E sid \in Ids(suites) :
        /\ hcall' = [fn |-> "path_for", sid |-> sid]
        /\ visited' = <<>>
        /\ parts' = <<>>
        /\ IF cache[Pos(suites, sid)] # PyNone
           THEN /\ hret' = cache[Pos(suites, sid)]
                /\ cur' = PyNone
                /\ hpc' = "ready"
           ELSE /\ hret' = PyNone
                /\ cur' = sid
                /\ hpc' = "path"
    /\ UNCHANGED <<suites, cache, hierOthers>>

\* One turn of path_for's loop (cur is not None).
PathStep ==
    /\ hpc = "path"
    /\ cur # PyNone
    /\ Len(visited) < MaxWalk
    /\ parts' = Append(parts, by_id(suites, cur).name)
    /\ visited' = Append(visited, cur)
    /\ cur' = ParentOrNone(suites, cur)
    /\ UNCHANGED <<suites, hpc, hcall, cache, hret, hierOthers>>

\* path_for after its loop: reverse, join, cache, return.
PathReturn ==
    /\ hpc = "path"
    /\ cur = PyNone
    /\ cache' = [cache EXCEPT ![Pos(suites, hcall.sid)] = Join("/", Reversed(parts))]
    /\ hret' = Join("/", Reversed(parts))
    /\ hpc' = "ready"
    /\ UNCHANGED <<suites, hcall, cur, parts, visited, hierOthers>>

\* top_ancestor(sid) up to its loop: cur = by_id[sid].
CallTopAncestor ==
    /\ hpc = "ready"
    /\ \E sid \in Ids(suites) :
        /\ hcall' = [fn |-> "top_ancestor", sid |-> sid]
        /\ cur' = sid
    /\ visited' = <<>>
    /\ parts' = <<>>
    /\ hret' = PyNone
    /\ hpc' = "top"
    /\ UNCHANGED <<suites, cache, hierOthers>>

\* One turn of top_ancestor's loop (cur has a parentId): cur = by_id[parentId],
\* a KeyError when the listing holds no such suite.
TopStep ==
    /\ hpc = "top"
    /\ by_id(suites, cur).parentId # PyNone
    /\ Len(visited) < MaxWalk
    /\ visited' = Append(visited, cur)
    /\ IF by_id(suites, cur).parentId \in Ids(suites)
       THEN cur' = by_id(suites, cur).parentId /\ hpc' = "top"
       ELSE cur' = cur /\ hpc' = "keyerror"
    /\ UNCHANGED <<suites, hcall, parts, cache, hret, hierOthers>>

\* top_ancestor after its loop: return cur["id"].
TopReturn ==
    /\ hpc = "top"
    /\ by_id(suites, cur).parentId = PyNone
    /\ hret' = by_id(suites, cur).id
    /\ hpc' = "ready"
    /\ UNCHANGED <<suites, hcall, cur, parts, visited, cache, hierOthers>>

HierNext ==
    CallPathFor \/ PathStep \/ PathReturn \/ CallTopAncestor \/ TopStep \/ TopReturn

HierSpecInit == HierInit /\ PagIdle /\ RecIdle /\ PlanIdle /\ AggIdle /\ OthersIdle

SpecHier == HierSpecInit /\ [][HierNext]_vars


(***************************************************************************)
(* Claims about the hierarchy resolver.                                    *)
(***************************************************************************)

\* C7: given parent references that form a cycle, path_for and top_ancestor
\* fail with a cycle error instead of looping: a walk never stands again on a
\* suite it has already left behind.
C7_WalkFailsOnRevisit ==
    hpc \in {"path", "top"} => cur \notin Range(visited)

\* The parent of a suite, as the listing states it.
ParentId(l, sid) == l[Pos(l, sid)].parentId

RECURSIVE Up(_, _, _)
\* The suites reached from those of S in at most k steps up the parents.
Up(l, S, k) ==
    IF k = 0 THEN S
    ELSE Up(l, S \cup {ParentId(l, x) : x \in {y \in S : ParentId(l, y) # PyNone}}, k - 1)

\* A suite and its ancestors; its proper ancestors.
Ancestors(l, sid) == Up(l, {sid}, Len(l))
ProperAncestors(l, sid) ==
    IF ParentId(l, sid) = PyNone THEN {} ELSE Up(l, {ParentId(l, sid)}, Len(l))

\* An acyclic forest: every parentId is None or a listed suite, and no suite
\* is its own ancestor.
Forest(l) ==
    /\ \A i \in DOMAIN l : l[i].parentId = PyNone \/ l[i].parentId \in Ids(l)
    /\ \A i \in DOMAIN l : l[i].id \notin ProperAncestors(l, l[i].id)

RECURSIVE RootDownPath(_, _)
\* The names from the root down to the suite, joined by '/'.
RootDownPath(l, sid) ==
    IF ParentId(l, sid) = PyNone THEN l[Pos(l, sid)].name
    ELSE RootDownPath(l, ParentId(l, sid)) \o "/" \o l[Pos(l, sid)].name

Chain3 ==
    <<[id |-> "1", parentId |-> PyNone, name |-> "root"],
      [id |-> "2", parentId |-> "1",    name |-> "mid"],
      [id |-> "3", parentId |-> "2",    name |-> "leaf"]>>

\* C8: for every suite of an acyclic forest, path_for returns the names of
\* its ancestors from the root down to the suite joined by '/', and
\* top_ancestor returns the id of its one ancestor that has no parent; for
\* the chain root, mid, leaf these are 'root/mid/leaf' and the id of root.
C8_PathAndRootOfForest ==
    (Forest(suites) /\ hpc = "ready" /\ hret # PyNone) =>
        /\ hcall.fn = "path_for" =>
              /\ hret = RootDownPath(suites, hcall.sid)
              /\ (suites = Chain3 /\ hcall.sid = "3") => hret = "root/mid/leaf"
        /\ hcall.fn = "top_ancestor" =>
              /\ {r \in Ancestors(suites, hcall.sid) : ParentId(suites, r) = PyNone} = {hret}
              /\ (suites = Chain3 /\ hcall.sid = "3") => hret = "1"

\* C8 witness: on the chain root, mid, leaf the path of leaf was computed and
\* then its root ancestor returned.
C8_Witness ==
    /\ suites = Chain3
    /\ hpc = "ready"
    /\ hcall = [fn |-> "top_ancestor", sid |-> "3"]
    /\ hret = "1"
    /\ cache[3] = "root/mid/leaf"


(***************************************************************************)
(* resolve_plan_id_by_name.  Names are sequences of characters, so that    *)
(* lower(), strip() and the substring test are computed, not assumed.      *)
(***************************************************************************)

Chars == {"p", "P", " "}

RECURSIVE SeqsUpTo(_, _)
\* The sequences over S of length at most n.
SeqsUpTo(S, n) ==
    IF n = 0 THEN {<<>>}
    ELSE LET shorter == SeqsUpTo(S, n - 1)
         IN  shorter \cup {Append(q, c) : q \in shorter, c \in S}

Names == SeqsUpTo(Chars, MaxNameLen)

\* str.lower()
LowerChar(c) == IF c = "P" THEN "p" ELSE c
Lower(str) == [i \in 1..Len(str) |-> LowerChar(str[i])]

RECURSIVE LStrip(_)
LStrip(str) ==
    IF Len(str) > 0 /\ Head(str) = " " THEN LStrip(Tail(str)) ELSE str

RECURSIVE RStrip(_)
RStrip(str) ==
    IF Len(str) > 0 /\ str[Len(str)] = " "
    THEN RStrip(SubSeq(str, 1, Len(str) - 1)) ELSE str

\* str.strip()
Strip(str) == RStrip(LStrip(str))

\* sub in str
Contains(sub, str) ==
    \E i \in 0..(Len(str) - Len(sub)) : SubSeq(str, i + 1, i + Len(sub)) = sub

\* wanted = plan_name.lower().strip()
Wanted(name) == Strip(Lower(name))

\* [p for p in plans if wanted in p.get("name","").lower()], as positions
Partial(ps, w) == {i \in DOMAIN ps : Contains(w, Lower(ps[i].name))}

\* exact taken to be the substring matches.
ExactIsPartial(ps, w) == Partial(ps, w)

\* [p for p in plans if p.get("name","").lower().strip() == wanted]
Exact(ps, w) == {i \in DOMAIN ps : Strip(Lower(ps[i].name)) = w}

\* exact[0], partial[0]: the first match in list order
First(S) == CHOOSE i \in S : \A j \in S : i <= j

\* TEST_PLAN_NAME, the only argument main passes: stripped when read from
\* .env, and not empty (the script exits at import otherwise).
TestPlanNames == {w \in Names : Strip(w) = w /\ w # <<>>}

PlanInit ==
    /\ \E n \in 0..MaxPlans :
          plans \in [1..n -> [id : {ToString(i) : i \in 1..n}, name : Names]]
    /\ \A i \in DOMAIN plans : plans[i].id = ToString(i)
    /\ wanted \in TestPlanNames
    /\ ppc = "call"
    /\ pid = PyNone

\* exact is not empty: pid = str(exact[0]["id"])
ResolveExact ==
    /\ ppc = "call"
    /\ Exact(plans, Wanted(wanted)) # {}
    /\ pid' = plans[First(Exact(plans, Wanted(wanted)))].id
    /\ ppc' = "returned"
    /\ UNCHANGED <<plans, wanted, planOthers>>

\* exact is empty, partial is not: exact = partial; pid = str(exact[0]["id"])
ResolvePartial ==
    /\ ppc = "call"
    /\ Exact(plans, Wanted(wanted)) = {}
    /\ Partial(plans, Wanted(wanted)) # {}
    /\ pid' = plans[First(Partial(plans, Wanted(wanted)))].id
    /\ ppc' = "returned"
    /\ UNCHANGED <<plans, wanted, planOthers>>

\* both are empty: raise SystemExit(f"Plan '{plan_name}' not found")
ResolveNotFound ==
    /\ ppc = "call"
    /\ Exact(plans, Wanted(wanted)) = {}
    /\ Partial(plans, Wanted(wanted)) = {}
    /\ ppc' = "notfound"
    /\ UNCHANGED <<plans, wanted, pid, planOthers>>

PlanNext == ResolveExact \/ ResolvePartial \/ ResolveNotFound

PlanSpecInit == PlanInit /\ PagIdle /\ RecIdle /\ HierIdle /\ AggIdle /\ OthersIdle

SpecPlan == PlanSpecInit /\ [][PlanNext]_vars

\* The listed plan with the returned id.
Returned == plans[CHOOSE i \in DOMAIN plans : plans[i].id = pid]

\* Equality and containment of names, ignoring case.
EqualsCI(a, b) == Lower(a) = Lower(b)
ContainsCI(sub, str) == Contains(Lower(sub), Lower(str))

\* C9 as claimed: the id of a plan whose name equals the wanted name
\* case-insensitively is returned whenever such a plan exists; otherwise a
\* plan whose name contains the wanted name case-insensitively; not-found
\* exactly when no plan matches either criterion.
C9_ExactThenSubstring ==
    ppc # "call" =>
        LET eq == {i \in DOMAIN plans : EqualsCI(plans[i].name, wanted)}
            has == {i \in DOMAIN plans : ContainsCI(wanted, plans[i].name)}
        IN  /\ eq # {} => ppc = "returned" /\ EqualsCI(Returned.name, wanted)
            /\ (eq = {} /\ has # {}) =>
                  ppc = "returned" /\ ContainsCI(wanted, Returned.name)
            /\ ppc = "notfound" <=> (eq = {} /\ has = {})

\* C9 as amended: the same with both comparisons made after stripping
\* leading and trailing whitespace: of both names for equality, of the
\* wanted name for containment.
C9_ExactThenSubstringStripped ==
    ppc # "call" =>
        LET eq == {i \in DOMAIN plans :
                      EqualsCI(Strip(plans[i].name), Strip(wanted))}
            has == {i \in DOMAIN plans : ContainsCI(Strip(wanted), plans[i].name)}
        IN  /\ eq # {} =>
                  ppc = "returned" /\ EqualsCI(Strip(Returned.name), Strip(wanted))
            /\ (eq = {} /\ has # {}) =>
                  ppc = "returned" /\ ContainsCI(Strip(wanted), Returned.name)
            /\ ppc = "notfound" <=> (eq = {} /\ has = {})

\* C9 witness: the plan listed first matches only as a substring, the second
\* one exactly up to case, and the second is returned.
C9_Witness ==
    /\ ppc = "returned"
    /\ wanted = <<"p">>
    /\ Len(plans) = 2
    /\ plans[1].name = <<"p", "P">>
    /\ plans[2].name = <<"P">>
    /\ pid = "2"


(***************************************************************************)
(* main: the aggregation of the points of every suite into one bucket per  *)
(* (top-level suite, test case), and the rows built from the buckets.      *)
(* The listing is an acyclic forest here: on any other listing main does   *)
(* not get as far as a row.                                                *)
(***************************************************************************)

\* suite_path[sid]: path_for as a function of the listing.
RECURSIVE PartsFrom(_, _)
PartsFrom(l, sid) ==
    IF sid = PyNone THEN <<>>
    ELSE <<by_id(l, sid).name>> \o PartsFrom(l, ParentOrNone(l, sid))

path_for(l, sid) == Join("/", Reversed(PartsFrom(l, sid)))

RECURSIVE top_ancestor(_, _)
\* top_ancestor(sid), as a function of the listing
top_ancestor(l, sid) ==
    IF by_id(l, sid).parentId # PyNone
    THEN top_ancestor(l, by_id(l, sid).parentId)
    ELSE by_id(l, sid).id

\* top_level = [s for s in suites if s.get("parentId") is None], as positions
top_level(l) == {i \in DOMAIN l : l[i].parentId = PyNone}

\* The names a suite can have, by position: the second and third can be
\* namesakes.
AggNames(i) == IF i = 3 THEN {"mid", "leaf"} ELSE {SuiteNames[i]}

\* The four outcome fields of a point: outcome, mostRecentResult.outcome,
\* lastTestRun.outcome, lastResultDetails.outcome (None where absent).
PointFields ==
    {<<o, PyNone, PyNone, PyNone>> :
        o \in {"Failed", "Blocked", "Passed", "Inconclusive", "", PyNone}}
    \cup {<<PyNone, "Failed", PyNone, PyNone>>, <<"", PyNone, PyNone, "Passed">>}

\* A point: testCase.id (None where absent), testCase.name and the fields.
Points == [tc : {PyNone, "42"}, name : {"login"}, fields : PointFields]

\* The four fields looked at in the opposite order.
ResolveLastFieldFirst(f) ==
    IF Truthy(f[4]) THEN f[4]
    ELSE IF Truthy(f[3]) THEN f[3]
    ELSE IF Truthy(f[2]) THEN f[2]
    ELSE f[1]

\* resolve_point_outcome(point)
resolve_point_outcome(f) ==
    IF Truthy(f[1]) THEN f[1]
    ELSE IF Truthy(f[2]) THEN f[2]
    ELSE IF Truthy(f[3]) THEN f[3]
    ELSE f[4]

\* outcome = (p.get("resolvedOutcome") or p.get("outcome") or "NeverRun")
PointOutcome(p) ==
    IF Truthy(resolve_point_outcome(p.fields)) THEN resolve_point_outcome(p.fields)
    ELSE IF Truthy(p.fields[1]) THEN p.fields[1]
    ELSE "NeverRun"

\* Number of a test case id with every id taken for the same test case.
TcIntCollapsed(tc) == 42

\* int(tcid)
TcInt(tc) == CASE tc = "42" -> 42 [] tc = "43" -> 43

\* A fresh bucket whatever the buckets hold.
SetDefaultFresh(buckets, key, tcname) ==
    [name |-> tcname, outcome |-> PyNone, paths |-> {}]

\* agg[tid].setdefault(int(tcid), {"name": tcname, "outcome": None, "paths": set()})
SetDefault(buckets, key, tcname) ==
    IF key \in DOMAIN buckets THEN buckets[key]
    ELSE [name |-> tcname, outcome |-> PyNone, paths |-> {}]

\* The merge with the outcome of the point replacing the bucket's.
MergedLatestWins(bucket, p, path_str) ==
    [name    |-> IF Truthy(bucket.name) THEN bucket.name ELSE p.name,
     outcome |-> PointOutcome(p),
     paths   |-> bucket.paths \cup {path_str}]

\* The merge with the path of the point replacing the bucket's.
MergedPathReplaced(bucket, p, path_str) ==
    [name    |-> IF Truthy(bucket.name) THEN bucket.name ELSE p.name,
     outcome |-> worse(bucket.outcome, PointOutcome(p)),
     paths   |-> {path_str}]

\* The merge with the name of the point replacing the bucket's.
MergedNameReplaced(bucket, p, path_str) ==
    [name    |-> p.name,
     outcome |-> worse(bucket.outcome, PointOutcome(p)),
     paths   |-> bucket.paths \cup {path_str}]

\* bucket["name"] = bucket["name"] or tcname
\* bucket["outcome"] = worse(bucket["outcome"], outcome)
\* bucket["paths"].add(path_str)
Merged(bucket, p, path_str) ==
    [name    |-> IF Truthy(bucket.name) THEN bucket.name ELSE p.name,
     outcome |-> worse(bucket.outcome, PointOutcome(p)),
     paths   |-> bucket.paths \cup {path_str}]

\* The rows of all top-level suites: one per bucket.  Paths is kept as the
\* set of paths; its size is NumPaths.
RowsOf(l, a) ==
    {[TopSuiteId   |-> l[t].id,
      TopSuiteName |-> l[t].name,
      TestCaseId   |-> k,
      TestCaseName |-> a[l[t].id][k].name,
      Outcome      |-> EmittedOutcome(a[l[t].id][k].outcome),
      Paths        |-> a[l[t].id][k].paths,
      NumPaths     |-> Cardinality(a[l[t].id][k].paths)] :
        <<t, k>> \in {tk \in top_level(l) \X {42, 43} : tk[2] \in DOMAIN a[l[tk[1]].id]}}

AggInit ==
    /\ \E n \in MaxSuites..MaxSuites :
          suites \in {l \in Listings(n, [i \in 1..n |-> AggNames(i)]) : Forest(l)}
    /\ apc = "loop"
    /\ si = 1
    /\ npts = 0
    \* agg = {s["id"]: {} for s in top_level}
    /\ agg = [t \in {suites[i].id : i \in top_level(suites)} |-> <<>>]
    /\ rows = {}
    /\ obs = {}

\* A point of suite si with a test case id is merged into its bucket.
MergePoint ==
    /\ apc = "loop"
    /\ si <= Len(suites)
    /\ npts < MaxPoints
    /\ \E p \in Points :
        /\ Truthy(p.tc)
        /\ LET sid == suites[si].id
               tid == top_ancestor(suites, sid)
               key == TcInt(p.tc)
               bucket == SetDefault(agg[tid], key, p.name)
           IN  /\ agg' = [agg EXCEPT ![tid] =
                            (key :> Merged(bucket, p, path_for(suites, sid))) @@ @]
               /\ obs' = obs \cup {[sid |-> sid, tc |-> key, outcome |-> PointOutcome(p)]}
    /\ npts' = npts + 1
    /\ UNCHANGED <<apc, si, rows, suites, aggOthers>>

\* A point of suite si without test case id: if not tcid: continue
SkipPoint ==
    /\ apc = "loop"
    /\ si <= Len(suites)
    /\ npts < MaxPoints
    /\ (\E p \in Points : ~Truthy(p.tc))
    /\ npts' = npts + 1
    /\ UNCHANGED <<apc, si, agg, rows, obs, suites, aggOthers>>

\* The points of suite si are exhausted: the for loop goes to the next suite.
NextSuite ==
    /\ apc = "loop"
    /\ si <= Len(suites)
    /\ si' = si + 1
    /\ UNCHANGED <<apc, npts, agg, rows, obs, suites, aggOthers>>

\* After the loop: the rows of every top-level suite are built.
EmitRows ==
    /\ apc = "loop"
    /\ si > Len(suites)
    /\ rows' = RowsOf(suites, agg)
    /\ apc' = "done"
    /\ UNCHANGED <<si, npts, agg, obs, suites, aggOthers>>

AggNext == MergePoint \/ SkipPoint \/ NextSuite \/ EmitRows

AggSpecInit == AggInit /\ WalkIdle /\ PagIdle /\ RecIdle /\ PlanIdle /\ OthersIdle

SpecAgg == AggSpecInit /\ [][AggNext]_vars


(***************************************************************************)
(* Claims about the aggregation.                                           *)
(***************************************************************************)

\* The top-level suite a suite is under: its one ancestor without parent.
RootOf(l, sid) == CHOOSE r \in Ancestors(l, sid) : ParentId(l, r) = PyNone

\* The place of a status in the precedence Failed > ... > Passed (1 is the
\* worst); 0 for a value that is no recognised status.
Precedence(o) ==
    IF o \in Range(Recognised) THEN CHOOSE i \in 1..Len(Recognised) : Recognised[i] = o
    ELSE 0

\* The points merged for the test case of a row under the row's top suite.
ObsOfRow(row) ==
    {o \in obs : o.tc = row.TestCaseId /\ RootOf(suites, o.sid) = row.TopSuiteId}

\* C6: worst observed wins.  In every emitted row, if a point of the test
\* case in any suite under the top-level suite resolved to Failed, the
\* Outcome is Failed; the Outcome never has lower precedence than a
\* recognised outcome observed for that test case under that root.
C6_WorstObservedWins ==
    apc = "done" =>
        \A row \in rows : \A o \in ObsOfRow(row) :
            /\ o.outcome = "Failed" => row.Outcome = "Failed"
            /\ o.outcome \in Range(Recognised) =>
                  /\ row.Outcome \in Range(Recognised)
                  /\ Precedence(row.Outcome) <= Precedence(o.outcome)

\* C6 witness: a failure seen first in a child suite, then a pass in another
\* suite under the same root; the row says Failed.
C6_Witness ==
    /\ apc = "done"
    /\ \E row \in rows :
          /\ row.Outcome = "Failed"
          /\ {o.outcome : o \in ObsOfRow(row)} = {"Failed", "Passed"}
          /\ \E o \in ObsOfRow(row) : o.outcome = "Failed" /\ o.sid = "2"
          /\ \E o \in ObsOfRow(row) : o.outcome = "Passed" /\ o.sid = "3"

\* Two distinct suites under one root that surface the test case tc, one
\* with a point Passed and the other with a point Failed, and no third suite
\* under that root surfaces it.
PassedAndFailed(s1, s2, tc) ==
    /\ s1 # s2
    /\ RootOf(suites, s1) = RootOf(suites, s2)
    /\ [sid |-> s1, tc |-> tc, outcome |-> "Passed"] \in obs
    /\ [sid |-> s2, tc |-> tc, outcome |-> "Failed"] \in obs
    /\ \A o \in obs :
          (o.tc = tc /\ RootOf(suites, o.sid) = RootOf(suites, s1)) => o.sid \in {s1, s2}

RowsFor(tid, tc) == {row \in rows : row.TopSuiteId = tid /\ row.TestCaseId = tc}

\* C10 as claimed: for any two such suites the row of the test case under
\* the root has Outcome Failed and NumPaths = 2.
C10_FailedAndTwoPaths ==
    apc = "done" =>
        \A s1, s2 \in Ids(suites) : \A tc \in {o.tc : o \in obs} :
            PassedAndFailed(s1, s2, tc) =>
                /\ Cardinality(RowsFor(RootOf(suites, s1), tc)) = 1
                /\ \A row \in RowsFor(RootOf(suites, s1), tc) :
                      row.Outcome = "Failed" /\ row.NumPaths = 2

\* C10 as amended: the row has Outcome Failed, and NumPaths is the number of
\* distinct paths of the two suites: 2 when their slash-joined paths differ,
\* 1 when they are the same (namesake siblings).
C10_FailedAndDistinctPaths ==
    apc = "done" =>
        \A s1, s2 \in Ids(suites) : \A tc \in {o.tc : o \in obs} :
            PassedAndFailed(s1, s2, tc) =>
                /\ Cardinality(RowsFor(RootOf(suites, s1), tc)) = 1
                /\ \A row \in RowsFor(RootOf(suites, s1), tc) :
                      /\ row.Outcome = "Failed"
                      /\ row.NumPaths =
                            IF RootDownPath(suites, s1) # RootDownPath(suites, s2)
                            THEN 2 ELSE 1

\* C10 witness: suites 2 and 3 under root 1, with different paths, surfaced
\* test case 42 as Passed and as Failed; the row has two paths.
C10_Witness ==
    /\ apc = "done"
    /\ PassedAndFailed("2", "3", 42)
    /\ RootOf(suites, "2") = "1"
    /\ \E row \in RowsFor("1", 42) :
          row.Outcome = "Failed" /\ row.NumPaths = 2 /\ row.Paths = {"root/mid", "root/leaf"}


(***************************************************************************)
(* main, from plan resolution to the CSV files.  The HTTP traffic of a     *)
(* step is abstracted to its outcome: the step returns what the service    *)
(* listed, or its fetch ends in SystemExit (get_json on a status >= 400,   *)
(* get_json_paginated_fallback when every version failed).                 *)
(***************************************************************************)

\* Listings of three suites: a chain root/mid/leaf, and two roots of which
\* the first has a child; each also listed in the opposite order.
ChainListing ==
    <<[id |-> "1", parentId |-> PyNone, name |-> "root"],
      [id |-> "2", parentId |-> "1",    name |-> "mid"],
      [id |-> "3", parentId |-> "2",    name |-> "leaf"]>>

TwoRootsListing ==
    <<[id |-> "1", parentId |-> PyNone, name |-> "root"],
      [id |-> "2", parentId |-> "1",    name |-> "mid"],
      [id |-> "3", parentId |-> PyNone, name |-> "other"]>>

\* Two top-level suites whose names differ in case and separator only.
AlikeRootsListing ==
    <<[id |-> "1", parentId |-> PyNone, name |-> "UAT 1"],
      [id |-> "2", parentId |-> "1",    name |-> "mid"],
      [id |-> "3", parentId |-> PyNone, name |-> "uat-1"]>>

MainListings ==
    {ChainListing, Reversed(ChainListing), TwoRootsListing, Reversed(TwoRootsListing),
     AlikeRootsListing}

\* The points the service can return for a suite: id, testCase.id,
\* testCase.name and the four outcome fields.  Ids of points and runs are
\* written as strings of digits.
MainPoints ==
    {[id |-> "1", tc |-> "42",   name |-> "login",  fields |-> <<"Passed", PyNone, PyNone, PyNone>>],
     [id |-> "2", tc |-> "42",   name |-> "login",  fields |-> <<PyNone, "Failed", PyNone, PyNone>>],
     [id |-> "3", tc |-> "42",   name |-> "signin", fields |-> <<PyNone, "", PyNone, PyNone>>],
     [id |-> "4", tc |-> "43",   name |-> "logout", fields |-> <<"Blocked", PyNone, PyNone, PyNone>>],
     [id |-> "5", tc |-> PyNone, name |-> PyNone,   fields |-> <<"Failed", PyNone, PyNone, PyNone>>]}

\* The runs the service can list for the plan: id (None where the run has
\* none) and lastUpdatedDate.  Timestamps are numbered in their order; 0 is
\* an absent or empty one.
RunLists ==
    {<<>>,
     <<[id |-> "7", lastUpdatedDate |-> 1]>>,
     <<[id |-> "7", lastUpdatedDate |-> 1], [id |-> "8", lastUpdatedDate |-> 2]>>,
     <<[id |-> PyNone, lastUpdatedDate |-> 1]>>}

\* The results the service can list for a run: pointId (None where absent),
\* outcome, completedDate and startedDate.
ResultLists ==
    {<<>>,
     <<[pointId |-> "3", outcome |-> "Failed", completedDate |-> 2, startedDate |-> 1]>>,
     <<[pointId |-> "3", outcome |-> "Passed", completedDate |-> 0, startedDate |-> 0]>>,
     <<[pointId |-> PyNone, outcome |-> "Failed", completedDate |-> 2, startedDate |-> 1]>>}

\* runs.sort(key=lastUpdatedDate, reverse=True), for lists of at most two
SortRuns(rl) ==
    IF Len(rl) = 2 /\ rl[1].lastUpdatedDate < rl[2].lastUpdatedDate
    THEN <<rl[2], rl[1]>> ELSE rl

\* ts = res.get("completedDate") or res.get("startedDate") or run.get("lastUpdatedDate")
ResultTs(res, run) ==
    IF res.completedDate # 0 THEN res.completedDate
    ELSE IF res.startedDate # 0 THEN res.startedDate
    ELSE run.lastUpdatedDate

\* One turn of the loop over the results of a run.
Backfilled(lbp, res, run) ==
    IF res.pointId = PyNone THEN lbp
    ELSE IF res.pointId \notin DOMAIN lbp \/ ResultTs(res, run) > lbp[res.pointId].ts
         THEN (res.pointId :> [outcome |-> res.outcome, ts |-> ResultTs(res, run)]) @@ lbp
         ELSE lbp

RECURSIVE BackfilledAll(_, _, _)
\* The loop over the results of a run.
BackfilledAll(lbp, rs, run) ==
    IF rs = <<>> THEN lbp
    ELSE BackfilledAll(Backfilled(lbp, Head(rs), run), Tail(rs), run)

\* ---- slugify and the CSV path of a top-level suite ----

\* The characters of the suite names, one string each.
CharsOf(name) ==
    CASE name = "root"  -> <<"r", "o", "o", "t">>
      [] name = "mid"   -> <<"m", "i", "d">>
      [] name = "leaf"  -> <<"l", "e", "a", "f">>
      [] name = "other" -> <<"o", "t", "h", "e", "r">>
      [] name = "UAT 1" -> <<"U", "A", "T", " ", "1">>
      [] name = "uat-1" -> <<"u", "a", "t", "-", "1">>

UpperLetters ==
    <<"A", "B", "C", "D", "E", "F", "G", "H", "I", "J", "K", "L", "M",
      "N", "O", "P", "Q", "R", "S", "T", "U", "V", "W", "X", "Y", "Z">>

LowerLetters ==
    <<"a", "b", "c", "d", "e", "f", "g", "h", "i", "j", "k", "l", "m",
      "n", "o", "p", "q", "r", "s", "t", "u", "v", "w", "x", "y", "z">>

DigitChars == {"0", "1", "2", "3", "4", "5", "6", "7", "8", "9"}

\* \s and \w of the regular expressions
IsSpace(c) == c \in {" ", "\t", "\n"}
IsWord(c) ==
    c \in Range(UpperLetters) \cup Range(LowerLetters) \cup DigitChars \cup {"_"}

\* str.lower(), one character
ToLowerChar(c) ==
    IF c \in Range(UpperLetters)
    THEN LowerLetters[CHOOSE i \in 1..Len(UpperLetters) : UpperLetters[i] = c]
    ELSE c

RECURSIVE DropWhile(_, _)
\* str without its longest prefix of characters of S
DropWhile(str, S) ==
    IF Len(str) > 0 /\ Head(str) \in S THEN DropWhile(Tail(str), S) ELSE str

\* str.strip(chars), for the characters of S
StripChars(str, S) == Reversed(DropWhile(Reversed(DropWhile(str, S)), S))

RECURSIVE ReplaceAmp(_)
\* str.replace("&", "and")
ReplaceAmp(str) ==
    IF str = <<>> THEN <<>>
    ELSE (IF Head(str) = "&" THEN <<"a", "n", "d">> ELSE <<Head(str)>>)
            \o ReplaceAmp(Tail(str))

\* re.sub(r"[^\w\s-]", "", s)
KeepWordSpaceHyphen(str) == SelectSeq(str, LAMBDA c : IsWord(c) \/ IsSpace(c) \/ c = "-")

RECURSIVE CollapseSeparators(_)
\* re.sub(r"[\s-]+", "_", s)
CollapseSeparators(str) ==
    IF str = <<>> THEN <<>>
    ELSE IF IsSpace(Head(str)) \/ Head(str) = "-"
         THEN <<"_">> \o CollapseSeparators(DropWhile(str, {" ", "\t", "\n", "-"}))
         ELSE <<Head(str)>> \o CollapseSeparators(Tail(str))

\* maxlen: int = 80
SlugMaxLen == 80

\* slugify(name, maxlen), on the characters of the name
slugify(name, maxlen) ==
    LET s1 == ReplaceAmp([i \in 1..Len(StripChars(name, {" ", "\t", "\n"})) |->
                            ToLowerChar(StripChars(name, {" ", "\t", "\n"})[i])])
        s2 == KeepWordSpaceHyphen(s1)
        s3 == StripChars(CollapseSeparators(s2), {"_"})
    IN  IF Len(s3) > maxlen THEN SubSeq(s3, 1, maxlen) ELSE s3

\* OUTPUT_DIR, by default
OUTPUT_DIR == "exports"

\* out_path = os.path.join(OUTPUT_DIR, f"{safe}_testcases.csv")
CsvPath(tname) ==
    OUTPUT_DIR \o "/" \o Join("", slugify(CharsOf(tname), SlugMaxLen)) \o "_testcases.csv"

\* top_level, in the order of the listing
TopList(l) == SelectSeq(l, LAMBDA s : s.parentId = PyNone)

\* agg = {s["id"]: {} for s in top_level}
EmptyAgg(l) == [t \in {l[i].id : i \in top_level(l)} |-> <<>>]

\* One turn of the loop over the points of suite sid, for a point with a
\* test case id.
MergedInto(a, l, sid, p) ==
    LET tid == top_ancestor(l, sid)
        key == TcInt(p.tc)
    IN  [a EXCEPT ![tid] =
            (key :> Merged(SetDefault(a[tid], key, p.name), p, path_for(l, sid))) @@ @]

\* The rows of the CSV of top-level suite tid.
RowsOfTop(l, a, tid) == {r \in RowsOf(l, a) : r.TopSuiteId = tid}

\* The rows of the combined CSV.
CombinedRows(l, a) ==
    {[TopSuiteName |-> r.TopSuiteName, TestCaseId |-> r.TestCaseId,
      TestCaseName |-> r.TestCaseName, Outcome |-> r.Outcome,
      NumPaths |-> r.NumPaths, Paths |-> r.Paths] : r \in RowsOf(l, a)}

\* Where main goes after the backfill raised: on to the points, a run that
\* aborts there instead.
AfterBackfillErrorAbort == "aborted"
AfterBackfillError == "points"

\* Where main goes after the points of a suite failed on all versions: it
\* aborts; a run that goes on with the same suite instead.
AfterPointsExhaustedRetry == "points"
AfterPointsExhausted == "aborted"

MainInit ==
    /\ mpc = "plan" /\ msuites = <<>> /\ msi = 0 /\ mnpts = 0 /\ magg = <<>>
    /\ runsLeft = <<>> /\ latest_by_point = <<>> /\ bf = "none" /\ log = <<>>
    /\ csvs = <<>> /\ combined = <<>> /\ failedAt = PyNone

\* plan_id = resolve_plan_id_by_name(TEST_PLAN_NAME) returns.
PlanResolved ==
    /\ mpc = "plan"
    /\ mpc' = "suites"
    /\ UNCHANGED <<msuites, msi, mnpts, magg, runsLeft, latest_by_point, bf, log,
                   csvs, combined, failedAt, mainOthers>>

\* resolve_plan_id_by_name raises SystemExit: the plans request was answered
\* with a status >= 400, or no plan matches.
PlanFails ==
    /\ mpc = "plan"
    /\ mpc' = "aborted"
    /\ failedAt' = "plan"
    /\ UNCHANGED <<msuites, msi, mnpts, magg, runsLeft, latest_by_point, bf, log,
                   csvs, combined, mainOthers>>

\* suites = list_suites(plan_id) returns; by_id, top_level and suite_path
\* are functions of the listing.
SuitesListed ==
    /\ mpc = "suites"
    /\ msuites' \in MainListings
    /\ mpc' = "runs"
    /\ UNCHANGED <<msi, mnpts, magg, runsLeft, latest_by_point, bf, log,
                   csvs, combined, failedAt, mainOthers>>

\* list_suites raises SystemExit: the request was answered with a status >= 400.
SuitesFail ==
    /\ mpc = "suites"
    /\ mpc' = "aborted"
    /\ failedAt' = "suites"
    /\ UNCHANGED <<msuites, msi, mnpts, magg, runsLeft, latest_by_point, bf, log,
                   csvs, combined, mainOthers>>

\* The backfill block is left, normally ("ok") or through one of its except
\* clauses ("warned"); agg is set up and the loop over the suites begins.
EnterLoop(how) ==
    /\ bf' = how
    /\ mpc' = IF how = "warned" THEN AfterBackfillError ELSE "points"
    /\ msi' = 1
    /\ magg' = EmptyAgg(msuites)

\* runs = list_runs_for_plan(plan_id) returns the runs, newest first.
RunsListed ==
    /\ mpc = "runs"
    /\ \E rl \in RunLists : runsLeft' = SortRuns(rl)
    /\ mpc' = "results"
    /\ UNCHANGED <<msuites, msi, mnpts, magg, latest_by_point, bf, log,
                   csvs, combined, failedAt, mainOthers>>

\* list_runs_for_plan raises SystemExit (all versions failed): except
\* SystemExit prints a warning.
RunsExhausted ==
    /\ mpc = "runs"
    /\ EnterLoop("warned")
    /\ UNCHANGED <<msuites, mnpts, runsLeft, latest_by_point, log,
                   csvs, combined, failedAt, mainOthers>>

\* rid = run["id"] on a run without id raises KeyError: except Exception
\* prints a warning.
RunWithoutId ==
    /\ mpc = "results"
    /\ runsLeft # <<>>
    /\ Head(runsLeft).id = PyNone
    /\ EnterLoop("warned")
    /\ UNCHANGED <<msuites, mnpts, runsLeft, latest_by_point, log,
                   csvs, combined, failedAt, mainOthers>>

\* list_results_for_run(rid) raises SystemExit: except SystemExit prints a
\* warning.
ResultsExhausted ==
    /\ mpc = "results"
    /\ runsLeft # <<>>
    /\ Head(runsLeft).id # PyNone
    /\ EnterLoop("warned")
    /\ UNCHANGED <<msuites, mnpts, runsLeft, latest_by_point, log,
                   csvs, combined, failedAt, mainOthers>>

\* list_results_for_run(rid) returns: the results of the run are put into
\* latest_by_point.
ResultsFetched ==
    /\ mpc = "results"
    /\ runsLeft # <<>>
    /\ Head(runsLeft).id # PyNone
    /\ \E rs \in ResultLists :
          latest_by_point' = BackfilledAll(latest_by_point, rs, Head(runsLeft))
    /\ runsLeft' = Tail(runsLeft)
    /\ UNCHANGED <<mpc, msuites, msi, mnpts, magg, bf, log,
                   csvs, combined, failedAt, mainOthers>>

\* The loop over the runs is over.
BackfillDone ==
    /\ mpc = "results"
    /\ runsLeft = <<>>
    /\ EnterLoop("ok")
    /\ UNCHANGED <<msuites, mnpts, runsLeft, latest_by_point, log,
                   csvs, combined, failedAt, mainOthers>>

\* pts = get_points_for_suite(plan_id, sid) raises SystemExit: every version
\* failed.  Nothing catches it.
PointsExhausted ==
    /\ mpc = "points"
    /\ msi <= Len(msuites)
    /\ mpc' = AfterPointsExhausted
    /\ failedAt' = "points"
    /\ UNCHANGED <<msuites, msi, mnpts, magg, runsLeft, latest_by_point, bf, log,
                   csvs, combined, mainOthers>>

\* pts = get_points_for_suite(plan_id, sid) returns.
PointsFetched ==
    /\ mpc = "points"
    /\ msi <= Len(msuites)
    /\ mpc' = "merge"
    /\ UNCHANGED <<msuites, msi, mnpts, magg, runsLeft, latest_by_point, bf, log,
                   csvs, combined, failedAt, mainOthers>>

\* The next point of pts has a test case id: it is merged into its bucket.
MainMergePoint ==
    /\ mpc = "merge"
    /\ mnpts < MaxPoints
    /\ \E p \in MainPoints :
        /\ Truthy(p.tc)
        /\ magg' = MergedInto(magg, msuites, msuites[msi].id, p)
        /\ log' = Append(log, [sid |-> msuites[msi].id, p |-> p])
    /\ mnpts' = mnpts + 1
    /\ UNCHANGED <<mpc, msuites, msi, runsLeft, latest_by_point, bf,
                   csvs, combined, failedAt, mainOthers>>

\* The next point of pts has no test case id: if not tcid: continue
MainSkipPoint ==
    /\ mpc = "merge"
    /\ mnpts < MaxPoints
    /\ \E p \in MainPoints :
        /\ ~Truthy(p.tc)
        /\ log' = Append(log, [sid |-> msuites[msi].id, p |-> p])
    /\ mnpts' = mnpts + 1
    /\ UNCHANGED <<mpc, msuites, msi, magg, runsLeft, latest_by_point, bf,
                   csvs, combined, failedAt, mainOthers>>

\* pts is exhausted (at once if it is empty): the next suite.
MainNextSuite ==
    /\ mpc = "merge"
    /\ mpc' = "points"
    /\ msi' = msi + 1
    /\ UNCHANGED <<msuites, mnpts, magg, runsLeft, latest_by_point, bf, log,
                   csvs, combined, failedAt, mainOthers>>

\* After the loop over the suites: the CSV of the next top-level suite.
WriteCsv ==
    /\ mpc = "points"
    /\ msi > Len(msuites)
    /\ Len(csvs) < Len(TopList(msuites))
    /\ LET top == TopList(msuites)[Len(csvs) + 1]
       IN  csvs' = Append(csvs, [top  |-> top.id,
                                 file |-> CsvPath(top.name),
                                 rows |-> RowsOfTop(msuites, magg, top.id)])
    /\ UNCHANGED <<mpc, msuites, msi, mnpts, magg, runsLeft, latest_by_point, bf, log,
                   combined, failedAt, mainOthers>>

\* After the per-suite CSVs: the combined CSV, if it has a row.
WriteCombined ==
    /\ mpc = "points"
    /\ msi > Len(msuites)
    /\ Len(csvs) = Len(TopList(msuites))
    /\ combined' = IF CombinedRows(msuites, magg) # {}
                   THEN <<CombinedRows(msuites, magg)>> ELSE combined
    /\ mpc' = "done"
    /\ UNCHANGED <<msuites, msi, mnpts, magg, runsLeft, latest_by_point, bf, log,
                   csvs, failedAt, mainOthers>>

MainNext ==
    \/ PlanResolved \/ PlanFails \/ SuitesListed \/ SuitesFail
    \/ RunsListed \/ RunsExhausted \/ RunWithoutId \/ ResultsExhausted
    \/ ResultsFetched \/ BackfillDone
    \/ PointsExhausted \/ PointsFetched \/ MainMergePoint \/ MainSkipPoint
    \/ MainNextSuite \/ WriteCsv \/ WriteCombined

MainSpecInit ==
    /\ MainInit /\ PagIdle /\ RecIdle /\ HierIdle /\ PlanIdle /\ AggIdle /\ GetIdle
    /\ PtIdle /\ FlatIdle

SpecMain == MainSpecInit /\ [][MainNext]_vars


(***************************************************************************)
(* Claims about main.                                                      *)
(***************************************************************************)

\* The points returned for the suites under top-level suite tid that carry
\* a test case id.
PointsUnder(tid) ==
    {e \in Range(log) : Truthy(e.p.tc) /\ RootOf(msuites, e.sid) = tid}

\* C11: one row per test case with points.  The rows of the CSV of a
\* top-level suite have pairwise distinct TestCaseIds, and a test case id has
\* a row there exactly when a point for it was returned for that suite or
\* for one of its descendants.
C11_OneRowPerTestCaseWithPoints ==
    \A i \in 1..Len(csvs) :
        /\ \A r1, r2 \in csvs[i].rows : r1.TestCaseId = r2.TestCaseId => r1 = r2
        /\ {r.TestCaseId : r \in csvs[i].rows} =
              {IF e.p.tc = "42" THEN 42 ELSE 43 : e \in PointsUnder(csvs[i].top)}

\* C11 witness: the CSV of root 1 has a row for test case 42 and one for 43,
\* one of them owed to a point of the root's grandchild 3 alone, and another
\* top-level suite has no row.
C11_Witness ==
    /\ mpc = "done"
    /\ \E i \in 1..Len(csvs) :
          /\ csvs[i].top = "1"
          /\ {r.TestCaseId : r \in csvs[i].rows} = {42, 43}
          /\ \E e \in Range(log) : e.sid = "3" /\ e.p.tc = "43"
          /\ \A e \in Range(log) : e.p.tc = "43" => e.sid = "3"
          /\ RootOf(msuites, "3") = "1"

RECURSIVE AggOfLog(_, _)
\* agg as the loop over the suites builds it from the points of a log and
\* from nothing else.
AggOfLog(l, lg) ==
    IF lg = <<>> THEN EmptyAgg(l)
    ELSE LET a == AggOfLog(l, SubSeq(lg, 1, Len(lg) - 1))
             e == lg[Len(lg)]
         IN  IF Truthy(e.p.tc) THEN MergedInto(a, l, e.sid, e.p) ELSE a

\* C12: the backfill is best-effort.  Once listing the runs or fetching the
\* results of a run has failed, main is not aborted by it: it goes on to
\* fetch the points (and can only be aborted by a points fetch), and the
\* rows it writes are those that the points returned give by themselves, as
\* when the plan has no runs.
C12_BackfillIsBestEffort ==
    bf = "warned" =>
        /\ \/ mpc \in {"points", "merge", "done"}
           \/ mpc = "aborted" /\ failedAt = "points"
        /\ \A i \in 1..Len(csvs) :
              csvs[i].rows = RowsOfTop(msuites, AggOfLog(msuites, log), csvs[i].top)
        /\ mpc = "done" =>
              /\ Len(csvs) = Len(TopList(msuites))
              /\ combined = IF CombinedRows(msuites, AggOfLog(msuites, log)) = {}
                            THEN <<>>
                            ELSE <<CombinedRows(msuites, AggOfLog(msuites, log))>>

\* C12 witness: the results of the newest run were put into the backfill
\* map, the results fetch of the next run failed, and main still wrote a row
\* and finished.
C12_Witness ==
    /\ bf = "warned"
    /\ DOMAIN latest_by_point # {}
    /\ Len(runsLeft) = 1
    /\ mpc = "done"
    /\ \E i \in 1..Len(csvs) : csvs[i].rows # {}
    /\ Len(combined) = 1

\* A point that carries no outcome in any of its four outcome fields.
NoOutcome(p) == \A k \in 1..4 : ~Truthy(p.fields[k])

\* C13: backfill takes effect.  When main is done, a point returned without
\* outcome in its four fields, whose id the backfill map holds with the
\* outcome of a Result of a fetched run, gives its test case a row whose
\* Outcome is not NeverRun.
C13_BackfillTakesEffect ==
    mpc = "done" =>
        \A e \in Range(log) :
            (/\ Truthy(e.p.tc)
             /\ NoOutcome(e.p)
             /\ e.p.id \in DOMAIN latest_by_point
             /\ latest_by_point[e.p.id].outcome \in Range(Recognised)) =>
                \A i \in 1..Len(csvs) : \A r \in csvs[i].rows :
                    (csvs[i].top = RootOf(msuites, e.sid) /\ r.TestCaseId = TcInt(e.p.tc))
                        => r.Outcome # "NeverRun"

\* C14: mandatory steps are fatal, with no partial output.  When plan
\* resolution, the suites request or the points fetch of a suite has failed,
\* the run is aborted, and no per-top-level-suite CSV and no combined CSV has
\* been written; a CSV is only written once the points of every suite were
\* fetched.
C14_FatalWithoutPartialOutput ==
    /\ failedAt # PyNone => mpc = "aborted"
    /\ mpc = "aborted" => (csvs = <<>> /\ combined = <<>>)
    /\ (csvs # <<>> \/ combined # <<>>) => msi > Len(msuites)

\* C14 witness: the points of the first two suites were fetched and merged,
\* the points fetch of the third failed on all versions; the run is aborted
\* with buckets filled and nothing written.
C14_Witness ==
    /\ mpc = "aborted"
    /\ failedAt = "points"
    /\ msi = 3
    /\ Len(log) >= 2
    /\ \E t \in DOMAIN magg : DOMAIN magg[t] # {}
    /\ csvs = <<>>
    /\ combined = <<>>

(***************************************************************************)
(* get_json: one request, then SystemExit on a status >= 400 or the        *)
(* decoded body.                                                           *)
(***************************************************************************)

\* The urls get_json is called with: the plans and the suites of a plan.
GetUrls == {"/_apis/testplan/plans", "/_apis/testplan/Plans/9/suites"}

\* params or {}: no parameters (params is None or empty), or the api-version
\* that resolve_plan_id_by_name and list_suites pass.
GetParams == {<<>>, <<<<"api-version", "7.1-preview.1">>>>}

\* r.url: the url requests sent, the url argument followed by the query
\* string of the parameters when there are any.  The keys and values passed
\* hold only characters that the encoding of a query string leaves as they
\* are.
SentUrl(url, params) ==
    IF params = <<>> THEN url
    ELSE url \o "?" \o
         Join("&", [i \in DOMAIN params |-> params[i][1] \o "=" \o params[i][2]])

\* The responses of the service: status, text, and the body r.json() decodes.
GetResponses ==
    [status : {200, 399, 400, 401, 403, 500},
     text   : {"", "denied", "{}"},
     body   : Bodies]

\* A status of 500 or more.
IsServerError(r) == r.status >= 500

\* if r.status_code >= 400
IsHttpError(r) == r.status >= 400

\* f"HTTP {r.status_code} for GET {r.url}\n{r.text}"
HttpError(r, url) == "HTTP " \o ToString(r.status) \o " for GET " \o url \o "\n" \o r.text

GetInit ==
    /\ gpc = "call"
    /\ gurl \in GetUrls
    /\ gparams \in GetParams
    /\ gresp = PyNone
    /\ greqs = <<>>
    /\ gret = PyNone
    /\ gexit = PyNone

\* r = requests.get(url, headers=H(), params=params or {})
GetSend ==
    /\ gpc = "call"
    /\ greqs' = Append(greqs, gurl)
    /\ gresp' \in GetResponses
    /\ gpc' = "sent"
    /\ UNCHANGED <<gurl, gparams, gret, gexit, getOthers>>

\* raise SystemExit(...) on a status >= 400
GetRaise ==
    /\ gpc = "sent"
    /\ IsHttpError(gresp)
    /\ gexit' = HttpError(gresp, SentUrl(gurl, gparams))
    /\ gpc' = "raised"
    /\ UNCHANGED <<gurl, gparams, gresp, greqs, gret, getOthers>>

\* return r.json()
GetReturn ==
    /\ gpc = "sent"
    /\ ~IsHttpError(gresp)
    /\ gret' = gresp.body
    /\ gpc' = "returned"
    /\ UNCHANGED <<gurl, gparams, gresp, greqs, gexit, getOthers>>

GetNext == GetSend \/ GetRaise \/ GetReturn

GetSpecInit ==
    /\ GetInit /\ PagIdle /\ RecIdle /\ HierIdle /\ PlanIdle /\ AggIdle /\ MainIdle
    /\ PtIdle /\ FlatIdle

SpecGet == GetSpecInit /\ [][GetNext]_vars

\* C15: get_json issues exactly one request per call.  When the call is
\* over it has issued one request, for its url; on a status >= 400 it has
\* raised SystemExit with the status code, the url that was sent (query
\* string included) and the response text, and returned nothing; otherwise
\* it has returned the decoded body and raised nothing.
C15_OneRequestThenAbortOrBody ==
    /\ Len(greqs) <= 1
    /\ gpc \in {"returned", "raised"} =>
          /\ greqs = <<gurl>>
          /\ gresp.status >= 400 =>
                /\ gpc = "raised"
                /\ \E q \in {"", "?api-version=7.1-preview.1"} :
                      /\ q = "" <=> gparams = <<>>
                      /\ gexit = "HTTP " \o ToString(gresp.status) \o " for GET "
                                    \o gurl \o q \o "\n" \o gresp.text
                /\ gret = PyNone
          /\ gresp.status < 400 =>
                /\ gpc = "returned"
                /\ gret = gresp.body
                /\ gexit = PyNone

\* C15 witness: a call answered 401 has ended in SystemExit with the body of
\* the response, after one request.
C15_Witness ==
    /\ gpc = "raised"
    /\ gresp.status = 401
    /\ gresp.text = "denied"
    /\ Len(greqs) = 1
    /\ gexit = "HTTP 401 for GET /_apis/testplan/plans?api-version=7.1-preview.1\ndenied"

(***************************************************************************)
(* Further claims about the pagination client.                             *)
(***************************************************************************)

\* C16: a rejected credential ends the requests.  When a request of the
\* pagination client was answered 401 or 403, no request is issued after it:
\* no later version is tried and no page is fetched.
C16_AuthRejectionEndsRequests ==
    \A i \in 1..Len(errs) :
        errs[i].status \in {401, 403} => (i = Len(errs) /\ served = <<>>)

\* C17: a page without value key is an empty page.  A fetch that is answered
\* with a status < 400 and a body without entry under the value key leaves
\* the accumulator, the version being tried and the error text as they were;
\* the client returns the accumulator if the response has no continuation
\* token and requests the next page of the same version if it has one.
C17_MissingKeyIsEmptyPage ==
    [][(/\ Len(served') = Len(served) + 1
        /\ served'[Len(served')].kind = "missing") =>
            /\ out' = out
            /\ vi' = vi
            /\ errs' = errs
            /\ last' = last
            /\ exitMsg' = exitMsg
            /\ IF Truthy(token')
               THEN pc' = "request" /\ result' = result /\ req'.ver = versions[vi]
               ELSE pc' = "returned" /\ result' = out]_vars

\* C17 witness: the first page of a version had no value key and a
\* continuation token, the second page held two records and no token; the
\* two records were returned, with no version abandoned.
C17_Witness ==
    /\ pc = "returned"
    /\ errs = <<>>
    /\ Len(served) = 2
    /\ served[1].kind = "missing"
    /\ served[2] = [kind |-> "list", n |-> 2]
    /\ result = <<<<versions[1], 2, 1>>, <<versions[1], 2, 2>>>>
    /\ req.token # PyNone

(***************************************************************************)
(* resolve_point_outcome on one point, and the outcome main merges for it. *)
(***************************************************************************)

\* What an outcome field of a point can hold (None where it is absent).
OutcomeFieldValues == {PyNone, "", "Passed", "Failed", "Blocked"}

\* The four outcome fields of a point: outcome, mostRecentResult.outcome,
\* lastTestRun.outcome, lastResultDetails.outcome.
AllPointFields ==
    {<<a, b, c, e>> : a \in OutcomeFieldValues, b \in OutcomeFieldValues,
                      c \in OutcomeFieldValues, e \in OutcomeFieldValues}

PtInit ==
    /\ qpc = "point"
    /\ point \in AllPointFields
    /\ resolved = PyNone
    /\ fed = PyNone

\* p["resolvedOutcome"] = resolve_point_outcome(p)
ResolvePoint ==
    /\ qpc = "point"
    /\ resolved' = resolve_point_outcome(point)
    /\ qpc' = "resolved"
    /\ UNCHANGED <<point, fed, ptOthers>>

\* outcome = (p.get("resolvedOutcome") or p.get("outcome") or "NeverRun"),
\* the second argument of worse(bucket["outcome"], outcome)
FeedPoint ==
    /\ qpc = "resolved"
    /\ fed' = IF Truthy(resolved) THEN resolved
              ELSE IF Truthy(point[1]) THEN point[1]
              ELSE "NeverRun"
    /\ qpc' = "fed"
    /\ UNCHANGED <<point, resolved, ptOthers>>

PtNext == ResolvePoint \/ FeedPoint

PtSpecInit ==
    /\ PtInit /\ PagIdle /\ RecIdle /\ HierIdle /\ PlanIdle /\ AggIdle /\ MainIdle
    /\ GetIdle /\ FlatIdle

SpecPoint == PtSpecInit /\ [][PtNext]_vars

\* The non-empty fields of the point, by position.
NonEmptyFields == {k \in 1..4 : Truthy(point[k])}

\* C18: the first non-empty field wins.  resolve_point_outcome returns the
\* first non-empty value among outcome, mostRecentResult.outcome,
\* lastTestRun.outcome and lastResultDetails.outcome, in that order, and an
\* empty value when all four are absent or empty; the value merged into the
\* bucket is that value, or NeverRun when it is empty.
C18_FirstNonEmptyFieldWins ==
    /\ qpc \in {"resolved", "fed"} =>
          IF NonEmptyFields = {} THEN ~Truthy(resolved)
          ELSE \E k \in NonEmptyFields :
                  /\ \A j \in NonEmptyFields : k <= j
                  /\ resolved = point[k]
    /\ qpc = "fed" => fed = IF Truthy(resolved) THEN resolved ELSE "NeverRun"

\* C18 witness: outcome is empty, mostRecentResult has none, lastTestRun says
\* Blocked and lastResultDetails says Passed: Blocked is merged.
C18_Witness ==
    /\ qpc = "fed"
    /\ point = <<"", PyNone, "Blocked", "Passed">>
    /\ resolved = "Blocked"
    /\ fed = "Blocked"

(***************************************************************************)
(* Order independence of the aggregation of main.                          *)
(***************************************************************************)

\* The orders of n things.
Orders(n) == {f \in [1..n -> 1..n] : \A i, j \in 1..n : f[i] = f[j] => i = j}

\* lg is a log of a run over listing l: the points of a suite come together,
\* the suites in the order of the listing.
LogOf(l, lg) ==
    \A i, j \in 1..Len(lg) : i < j => Pos(l, lg[i].sid) <= Pos(l, lg[j].sid)

\* The rows written to the per-top-level-suite CSVs.
Written == UNION {csvs[i].rows : i \in 1..Len(csvs)}

\* A row without its TestCaseName.
Unnamed(r) ==
    [TopSuiteId |-> r.TopSuiteId, TopSuiteName |-> r.TopSuiteName,
     TestCaseId |-> r.TestCaseId, Outcome |-> r.Outcome,
     NumPaths |-> r.NumPaths, Paths |-> r.Paths]

\* All points returned for a test case under one top-level suite carry the
\* same test case name.
NamesAgree ==
    \A e1, e2 \in Range(log) :
        (/\ Truthy(e1.p.tc) /\ e1.p.tc = e2.p.tc
         /\ RootOf(msuites, e1.sid) = RootOf(msuites, e2.sid)) => e1.p.name = e2.p.name

\* C19 as claimed: the rows written are those of every run that lists the
\* same suites in another order and returns the same points of each suite in
\* another order.
C19_OrderIndependent ==
    mpc = "done" =>
        \A f \in Orders(Len(msuites)) : \A g \in Orders(Len(log)) :
            LogOf(Permuted(msuites, f), Permuted(log, g)) =>
                RowsOf(Permuted(msuites, f),
                       AggOfLog(Permuted(msuites, f), Permuted(log, g))) = Written

\* C19 as amended: such a run writes rows with the same TestCaseId, Outcome,
\* NumPaths and Paths, and the same rows altogether when all points of a
\* test case under a top-level suite carry the same test case name.
C19_OrderIndependentButName ==
    mpc = "done" =>
        \A f \in Orders(Len(msuites)) : \A g \in Orders(Len(log)) :
            LogOf(Permuted(msuites, f), Permuted(log, g)) =>
                LET other == RowsOf(Permuted(msuites, f),
                                    AggOfLog(Permuted(msuites, f), Permuted(log, g)))
                IN  /\ {Unnamed(r) : r \in other} = {Unnamed(r) : r \in Written}
                    /\ NamesAgree => other = Written

\* C19 witness: leaf, mid and root were listed in this order; leaf returned
\* a point Passed and mid a point Failed for test case 42, under one name;
\* the row says Failed, with both paths.
C19_Witness ==
    /\ mpc = "done"
    /\ msuites = Reversed(ChainListing)
    /\ NamesAgree
    /\ Len(log) = 2
    /\ log[1].sid = "3" /\ log[1].p.id = "1"
    /\ log[2].sid = "2" /\ log[2].p.id = "2"
    /\ \E r \in Written :
          /\ r.TestCaseId = 42 /\ r.Outcome = "Failed" /\ r.TestCaseName = "login"
          /\ r.Paths = {"root/mid", "root/mid/leaf"}

(***************************************************************************)
(* The algebra of worse, on the outcomes the reconciler was given.         *)
(***************************************************************************)

\* Two outcomes of equal precedence: the same value, or two values that are
\* no recognised statuses.
SamePrecedence(a, b) ==
    a = b \/ (a \notin Range(Recognised) /\ b \notin Range(Recognised))

\* worse is associative on the first three outcomes given.
WorseAssociative ==
    Len(raw) >= 3 =>
        worse(worse(raw[1], raw[2]), raw[3]) = worse(raw[1], worse(raw[2], raw[3]))

\* C20 as claimed: worse is commutative and associative over all outcome
\* values, None, the empty string and unrecognised strings included.
C20_WorseCommutativeAssociative ==
    /\ Len(raw) >= 2 => worse(raw[1], raw[2]) = worse(raw[2], raw[1])
    /\ WorseAssociative

\* C20 as amended: worse is associative; it is commutative on two outcomes
\* of different precedence, and on two outcomes of equal precedence it
\* returns its first argument.
C20_WorseAssociativeFirstOnTies ==
    /\ Len(raw) >= 2 =>
          IF SamePrecedence(raw[1], raw[2])
          THEN worse(raw[1], raw[2]) = raw[1] /\ worse(raw[2], raw[1]) = raw[2]
          ELSE worse(raw[1], raw[2]) = worse(raw[2], raw[1])
    /\ WorseAssociative

\* C20 witness: None, the empty string and Passed were given, in this order;
\* worse(None, "") is None and worse("", None) is "", and the bucket holds
\* Passed.
C20_Witness ==
    /\ Len(raw) = 3
    /\ raw[1] = PyNone /\ raw[2] = "" /\ raw[3] = "Passed"
    /\ worse(raw[1], raw[2]) = PyNone
    /\ worse(raw[2], raw[1]) = ""
    /\ worst = "Passed"

(***************************************************************************)
(* The place of Passed and of the values without rank in the precedence.   *)
(***************************************************************************)

\* C21: None/empty outranks Passed.  For Passed and a None or empty outcome,
\* given in either order, worse returns the None or empty one, and a bucket
\* given just these two is not emitted as Passed.
C21_NoneOutranksPassed ==
    \A x \in {PyNone, ""} :
        (Len(raw) = 2 /\ {raw[1], raw[2]} = {"Passed", x}) =>
            /\ worse("Passed", x) = x
            /\ worse(x, "Passed") = x
            /\ rpc = "done" => emitted # "Passed"

(***************************************************************************)
(* The CSV files main leaves behind.                                       *)
(***************************************************************************)

\* The files written, and what a file holds: the rows written to it last.
FilesWritten == {csvs[i].file : i \in 1..Len(csvs)}
LastWrite(f) == CHOOSE i \in 1..Len(csvs) :
                    csvs[i].file = f /\ \A j \in 1..Len(csvs) : csvs[j].file = f => j <= i

\* C22: one CSV file per top-level suite.  When main is done there are as
\* many distinct files as top-level suites, those without test cases
\* included; no file was written twice, and a file holds the rows of one
\* top-level suite.
C22_OneFilePerTopLevelSuite ==
    mpc = "done" =>
        /\ Cardinality(FilesWritten) = Len(TopList(msuites))
        /\ \A i, j \in 1..Len(csvs) : csvs[i].file = csvs[j].file => i = j
        /\ \A f \in FilesWritten : \A r \in csvs[LastWrite(f)].rows :
              r.TopSuiteId = csvs[LastWrite(f)].top

(***************************************************************************)
(* test_case_burndown.py, main: the flat results of a plan, one frame per  *)
(* top-level suite.  The points of every suite are listed and mapped to    *)
(* the suite's top-level ancestor; the results of every run are fetched    *)
(* and each is filed under the top-level suite of its point.               *)
(*                                                                         *)
(* An id arrives as JSON: a key can be absent, null, a number, or a string *)
(* of digits.  [t, v] stands for it: v is the number, or the number the    *)
(* digits spell; int() makes the number of either.                         *)
(***************************************************************************)
JAbsent == [t |-> "absent", v |-> 0]
JNull == [t |-> "null", v |-> 0]
JInt(n) == [t |-> "int", v |-> n]
JStr(n) == [t |-> "str", v |-> n]

\* int(x), for a number or a string of digits
PyInt(x) == [t |-> "int", v |-> x.v]

\* "k" in d, and d.get("k") is not None
HasKey(x) == x.t # "absent"
NotNone(x) == x.t \notin {"absent", "null"}

\* A parent named by a suite but absent from the listing.
DanglingListing ==
    <<[id |-> "1", parentId |-> PyNone, name |-> "root"],
      [id |-> "2", parentId |-> "9",    name |-> "orphan"],
      [id |-> "3", parentId |-> "1",    name |-> "leaf"]>>

FlatListings == {ChainListing, TwoRootsListing, Reversed(TwoRootsListing), DanglingListing}

\* The pages of points the service can return for a suite.
FlatPointLists ==
    {<<>>,
     <<[id |-> JInt(5)]>>,
     <<[id |-> JStr(5)], [id |-> JAbsent]>>,
     <<[id |-> JInt(6)]>>}

\* The runs the service can list for the plan; a run can lack a name.
FlatRunLists ==
    {<<>>,
     <<[id |-> JInt(7), name |-> "nightly", isAutomated |-> TRUE]>>,
     <<[id |-> JStr(7), name |-> PyNone, isAutomated |-> PyNone],
       [id |-> JInt(8), name |-> "manual", isAutomated |-> FALSE]>>}

\* testPoint of a result: absent, or a dict with or without an id.
NoTestPoint == [t |-> "absent", id |-> JAbsent]
TestPoint(i) == [t |-> "dict", id |-> i]

\* The results the service can return for a run.
FlatResultLists ==
    {<<>>,
     <<[id |-> JInt(1), testPoint |-> NoTestPoint, pointId |-> JInt(5)]>>,
     <<[id |-> JInt(1), testPoint |-> TestPoint(JStr(6)), pointId |-> JInt(5)]>>,
     <<[id |-> JAbsent, testPoint |-> NoTestPoint, pointId |-> JNull],
       [id |-> JInt(2), testPoint |-> NoTestPoint, pointId |-> JAbsent]>>,
     <<[id |-> JInt(1), testPoint |-> TestPoint(JAbsent), pointId |-> JStr(5)],
       [id |-> JInt(2), testPoint |-> NoTestPoint, pointId |-> JInt(4)]>>}

\* int(plan_id)
FlatPlanId == 9

\* get_points_for_suite: if "id" in p: p["id"] = int(p["id"])
NormPoint(p) == [p EXCEPT !.id = IF HasKey(p.id) THEN PyInt(p.id) ELSE p.id]
NormPoints(pts) == [i \in DOMAIN pts |-> NormPoint(pts[i])]

\* pids = [p["id"] for p in pts if "id" in p]
Pids(pts) == SelectSeq([i \in DOMAIN pts |-> pts[i].id], HasKey)

\* list_runs_for_plan: for r in runs: r["id"] = int(r["id"])
NormRuns(runs) == [i \in DOMAIN runs |-> [runs[i] EXCEPT !.id = PyInt(runs[i].id)]]

\* list_results_for_run: ids made int, pointId taken from testPoint.id when
\* testPoint is a dict with an id, else from pointId when it is not None.
NormResult(r) ==
    [r EXCEPT
        !.id = IF HasKey(r.id) THEN PyInt(r.id) ELSE r.id,
        !.pointId = IF r.testPoint.t = "dict" /\ HasKey(r.testPoint.id)
                    THEN PyInt(r.testPoint.id)
                    ELSE IF NotNone(r.pointId) THEN PyInt(r.pointId)
                    ELSE r.pointId]

\* The first top-level suite of the listing, whatever the suite.
FlatFirstTop(l, sid) == l[CHOOSE i \in top_level(l) : \A j \in top_level(l) : i <= j].id

RECURSIVE FlatTopAncestor(_, _)
\* top_ancestor(sid): the id of the suite reached by following parentId
FlatTopAncestor(l, sid) ==
    IF by_id(l, sid).parentId # PyNone
    THEN FlatTopAncestor(l, by_id(l, sid).parentId)
    ELSE by_id(l, sid).id

RECURSIVE WalkFails(_, _)
\* by_id[cur["parentId"]] raises KeyError somewhere on the way up from sid
WalkFails(l, sid) ==
    IF by_id(l, sid).parentId = PyNone THEN FALSE
    ELSE IF by_id(l, sid).parentId \notin Ids(l) THEN TRUE
    ELSE WalkFails(l, by_id(l, sid).parentId)

\* {s["id"]: [] for s in top_level}
EmptyByTop(l) == [t \in {l[i].id : i \in top_level(l)} |-> <<>>]

\* for pid in pids: point_to_top[pid] = tid
Mapped(ptt, pids, tid) ==
    [x \in DOMAIN ptt \cup Range(pids) |-> IF x \in Range(pids) THEN tid ELSE ptt[x]]

\* res with _planId, _topSuiteId, _runId, _runName and _automated set; k is
\* the place of the result among those fetched.
Enriched(res, run, tid, k) ==
    [id |-> res.id, testPoint |-> res.testPoint, pointId |-> res.pointId,
     _planId |-> FlatPlanId, _topSuiteId |-> tid, _runId |-> run.id,
     _runName |-> run.name, _automated |-> run.isAutomated, k |-> k]

RECURSIVE Filed(_, _, _, _, _)
\* The loop over the results of one run: a result without pointId, or whose
\* point is not in point_to_top, is passed over; another is appended to the
\* results of the top-level suite of its point.
Filed(rbt, ptt, run, ress, k) ==
    IF ress = <<>> THEN rbt
    ELSE IF ~NotNone(Head(ress).pointId) \/ Head(ress).pointId \notin DOMAIN ptt
         THEN Filed(rbt, ptt, run, Tail(ress), k + 1)
         ELSE Filed([rbt EXCEPT ![ptt[Head(ress).pointId]] =
                         Append(@, Enriched(Head(ress), run, ptt[Head(ress).pointId], k + 1))],
                    ptt, run, Tail(ress), k + 1)

FlatInit ==
    /\ fpc = "points"
    /\ fsuites \in FlatListings
    /\ fsi = 1
    /\ top_points = EmptyByTop(fsuites)
    /\ point_to_top = <<>>
    /\ fruns = <<>>
    /\ results_by_top = <<>>
    /\ dfs = <<>>
    /\ flisted = <<>>
    /\ ffetched = <<>>

\* A suite without points (or whose points have no id): continue.
FlatPointsSkip ==
    /\ fpc = "points"
    /\ fsi <= Len(fsuites)
    /\ \E pts \in FlatPointLists :
        /\ Pids(NormPoints(pts)) = <<>>
        /\ flisted' = Append(flisted, [sid |-> fsuites[fsi].id, pts |-> pts])
    /\ fsi' = fsi + 1
    /\ UNCHANGED <<fpc, fsuites, top_points, point_to_top, fruns, results_by_top,
                   dfs, ffetched, flatOthers>>

\* A suite with points: they go to its top-level ancestor.
FlatPointsMapped ==
    /\ fpc = "points"
    /\ fsi <= Len(fsuites)
    /\ ~WalkFails(fsuites, fsuites[fsi].id)
    /\ \E pts \in FlatPointLists :
        LET pids == Pids(NormPoints(pts))
            tid == FlatTopAncestor(fsuites, fsuites[fsi].id)
        IN  /\ pids # <<>>
            /\ flisted' = Append(flisted, [sid |-> fsuites[fsi].id, pts |-> pts])
            /\ top_points' = [top_points EXCEPT ![tid] = @ \o pids]
            /\ point_to_top' = Mapped(point_to_top, pids, tid)
    /\ fsi' = fsi + 1
    /\ UNCHANGED <<fpc, fsuites, fruns, results_by_top, dfs, ffetched, flatOthers>>

\* A suite with points whose walk up meets a parent that is not listed.
FlatPointsKeyError ==
    /\ fpc = "points"
    /\ fsi <= Len(fsuites)
    /\ WalkFails(fsuites, fsuites[fsi].id)
    /\ \E pts \in FlatPointLists :
        /\ Pids(NormPoints(pts)) # <<>>
        /\ flisted' = Append(flisted, [sid |-> fsuites[fsi].id, pts |-> pts])
    /\ fpc' = "keyerror"
    /\ UNCHANGED <<fsuites, fsi, top_points, point_to_top, fruns, results_by_top,
                   dfs, ffetched, flatOthers>>

\* runs = list_runs_for_plan(...); results_by_top = {s["id"]: [] ...}
FlatRuns ==
    /\ fpc = "points"
    /\ fsi > Len(fsuites)
    /\ \E runs \in FlatRunLists : fruns' = NormRuns(runs)
    /\ results_by_top' = EmptyByTop(fsuites)
    /\ fpc' = "results"
    /\ UNCHANGED <<fsuites, fsi, top_points, point_to_top, dfs, flisted, ffetched,
                   flatOthers>>

\* One turn of the loop over the runs.
FlatResults ==
    /\ fpc = "results"
    /\ fruns # <<>>
    /\ \E ress \in FlatResultLists :
        /\ ffetched' = ffetched \o [i \in DOMAIN ress |-> [run |-> Head(fruns), res |-> ress[i]]]
        /\ results_by_top' =
              Filed(results_by_top, point_to_top, Head(fruns),
                    [i \in DOMAIN ress |-> NormResult(ress[i])], Len(ffetched))
    /\ fruns' = Tail(fruns)
    /\ UNCHANGED <<fpc, fsuites, fsi, top_points, point_to_top, dfs, flisted, flatOthers>>

\* The frames, one per top-level suite, are built and saved.
FlatWrite ==
    /\ fpc = "results"
    /\ fruns = <<>>
    /\ dfs' = results_by_top
    /\ fpc' = "done"
    /\ UNCHANGED <<fsuites, fsi, top_points, point_to_top, fruns, results_by_top,
                   flisted, ffetched, flatOthers>>

\* A listing of points, runs or results ends in SystemExit: nothing is saved.
FlatFail ==
    /\ \/ fpc = "points"
       \/ fpc = "results" /\ fruns # <<>>
    /\ fpc' = "aborted"
    /\ UNCHANGED <<fsuites, fsi, top_points, point_to_top, fruns, results_by_top,
                   dfs, flisted, ffetched, flatOthers>>

FlatNext ==
    \/ FlatPointsSkip \/ FlatPointsMapped \/ FlatPointsKeyError
    \/ FlatRuns \/ FlatResults \/ FlatWrite \/ FlatFail

FlatSpecInit ==
    /\ FlatInit /\ PagIdle /\ RecIdle /\ HierIdle /\ PlanIdle /\ AggIdle /\ MainIdle
    /\ GetIdle /\ PtIdle

SpecFlat == FlatSpecInit /\ [][FlatNext]_vars

\* The point a fetched result is of, as a set: empty when it names none.
PointOf(res) ==
    IF res.testPoint.t = "dict" /\ res.testPoint.id.t \in {"int", "str"}
    THEN {res.testPoint.id.v}
    ELSE IF res.pointId.t \in {"int", "str"} THEN {res.pointId.v}
    ELSE {}

\* The points a listing of a suite contained.
ListedIn(e) == {e.pts[i].id.v : i \in {j \in DOMAIN e.pts : e.pts[j].id.t \in {"int", "str"}}}

\* C23: in the flat-results flow every row carries _planId, _topSuiteId,
\* _runId and _runName; its _topSuiteId is the top-level suite it is filed
\* under and the root ancestor of a suite whose points listing contained the
\* point of the result; a fetched result is in the rows of at most one
\* top-level suite, and in none when it names no point or a point that no
\* listing contained.  The frames saved are these rows.
C23_FlatRowsUnderTheRootOfTheirPoint ==
    LET rowsOf == {x \in (DOMAIN results_by_top) \X (1..Len(ffetched)) :
                      x[2] <= Len(results_by_top[x[1]])}
        row(x) == results_by_top[x[1]][x[2]]
    IN  /\ \A x \in rowsOf :
              LET r == row(x)
                  f == ffetched[r.k]
              IN  /\ {"_planId", "_topSuiteId", "_runId", "_runName"} \subseteq DOMAIN r
                  /\ r._planId = FlatPlanId
                  /\ r._topSuiteId = x[1]
                  /\ r._runId.t = "int" /\ r._runId.v = f.run.id.v
                  /\ r._runName = f.run.name
                  /\ \E j \in DOMAIN flisted :
                        /\ PointOf(f.res) \subseteq ListedIn(flisted[j])
                        /\ ~WalkFails(fsuites, flisted[j].sid)
                        /\ RootOf(fsuites, flisted[j].sid) = x[1]
        /\ \A x, y \in rowsOf : row(x).k = row(y).k => x = y
        /\ \A k \in DOMAIN ffetched :
              (\/ PointOf(ffetched[k].res) = {}
               \/ \A j \in DOMAIN flisted :
                     ~(PointOf(ffetched[k].res) \subseteq ListedIn(flisted[j])))
                  => \A x \in rowsOf : row(x).k # k
        /\ fpc = "done" => dfs = results_by_top

\* Two runs fetched; a row under each of two top-level suites, one of them
\* for a result whose point the listing gave as a string of digits.
C23_Witness ==
    /\ fpc = "done"
    /\ Len(ffetched) >= 3
    /\ \E t, u \in DOMAIN dfs : t # u /\ dfs[t] # <<>> /\ dfs[u] # <<>>
    /\ \E k \in DOMAIN ffetched :
          /\ ffetched[k].res.pointId.t = "str"
          /\ \E t \in DOMAIN dfs : \E i \in DOMAIN dfs[t] : dfs[t][i].k = k
    /\ \E k \in DOMAIN ffetched : PointOf(ffetched[k].res) = {4}

(***************************************************************************)
(* Outcomes outside the precedence table.                                  *)
(***************************************************************************)

\* The keys of OUTCOME_ORDER.
InTable(o) == o \in Range(Recognised) \cup {PyNone, "", "None", "NeverRun"}

\* The observations with the i-th replaced by o.
Replaced(seq, i, o) == [seq EXCEPT ![i] = o]

\* C24 as stated: an outcome outside the precedence table counts as Passed,
\* so replacing it by Passed in the observations of a test case leaves the
\* emitted Outcome as it was.
C24_UnknownIsPassedEquivalent ==
    /\ rpc = "done" => emitted = Reconcile(raw)
    /\ \A i \in DOMAIN raw :
          ~InTable(raw[i]) => Reconcile(Replaced(raw, i, "Passed")) = Reconcile(raw)

\* C24, amended: an outcome outside the precedence table has the lowest
\* precedence, that of None and below Passed: replacing it by None in the
\* observations of a test case leaves the emitted Outcome as it was, and a
\* test case observed with such outcomes only is emitted as NeverRun.
C24_UnknownIsNoneEquivalent ==
    /\ rpc = "done" => emitted = Reconcile(raw)
    /\ \A i \in DOMAIN raw :
          ~InTable(raw[i]) => Reconcile(Replaced(raw, i, PyNone)) = Reconcile(raw)
    /\ (raw # <<>> /\ \A i \in DOMAIN raw : ~InTable(raw[i])) => Reconcile(raw) = "NeverRun"

\* Rows emitted from an unknown outcome alone, and from one next to Passed.
C24_Witness ==
    /\ rpc = "done"
    /\ Len(raw) >= 2
    /\ \E i \in DOMAIN raw : ~InTable(raw[i])
    /\ \/ emitted = "NeverRun" /\ \A i \in DOMAIN raw : ~InTable(raw[i])
       \/ emitted = "Passed"

\* C29: every emitted Outcome is one of Failed, Blocked, Paused, Active,
\* NotApplicable, Passed and NeverRun, whatever the observations and their
\* order: the outcome kept for a bucket is None or a recognised status, and
\* an observed string outside the precedence table is never emitted.
C29_EmittedOutcomeIsKnown ==
    /\ worst \in Range(Recognised) \cup {PyNone}
    /\ rpc = "done" =>
          /\ emitted \in Range(Recognised) \cup {"NeverRun"}
          /\ emitted = Reconcile(raw)
    /\ \A p \in [1..Len(raw) -> 1..Len(raw)] :
          (\A i, j \in 1..Len(raw) : p[i] = p[j] => i = j) =>
              Reconcile(Permuted(raw, p)) \in Range(Recognised) \cup {"NeverRun"}

\* A row emitted after an unknown outcome came first, then a recognised one.
C29_Witness ==
    /\ rpc = "done"
    /\ Len(raw) = MaxObs
    /\ ~InTable(raw[1])
    /\ \E i \in DOMAIN raw : raw[i] \in Range(Recognised)
    /\ \E i \in DOMAIN raw : raw[i] = "NeverRun"

(***************************************************************************)
(* The requests of get_json_paginated_fallback, one by one.                *)
(***************************************************************************)

\* A step that issues a request: it is answered by an error, which ends a
\* version, or by a page, which is served.
Issued == Len(errs') = Len(errs) + 1 \/ Len(served') = Len(served) + 1

\* C25: versions are tried in list order.  A request carries the version
\* that follows the versions abandoned so far, each of which was ended by
\* an error response to a request carrying it, in list order; and once a
\* version's pagination is complete (or every version failed) no request is
\* issued any more.
C25_VersionsInListOrder ==
    [][/\ Issued =>
            /\ pc = "request"
            /\ Len(errs) < Len(versions)
            /\ req'.ver = versions[Len(errs) + 1]
            /\ \A k \in DOMAIN errs :
                  errs[k].ver = versions[k] /\ errs[k].status >= 400
            /\ Len(served') = Len(served) + 1 => errs' = errs
       /\ pc \in {"returned", "failed"} =>
            ~Issued /\ req' = req /\ pc' = pc /\ result' = result
       /\ pc' = "returned" => result' # PyNone /\ Len(errs') < Len(versions)
      ]_vars

\* The third version answered after the first two were abandoned, the
\* second of them after a page had been served.
C25_Witness ==
    /\ pc = "returned"
    /\ Len(errs) = 2
    /\ dropped
    /\ req.ver = versions[3]
    /\ Len(served) = 2

\* C26: within a version every request after the first carries the token
\* returned by the response before it, and the first request of a version
\* carries none, also when the version before it was abandoned after some
\* of its pages had been served.
C26_ContinuationTokenProtocol ==
    [][Issued =>
          /\ req'.token = IF Len(served) = 0 THEN PyNone ELSE prevHdr
          /\ Len(served) > 0 => Truthy(prevHdr)
          /\ Len(errs') = Len(errs) + 1 => prevHdr' = PyNone /\ served' = <<>>
          /\ Len(served') = Len(served) + 1 =>
                \E r \in OkResponses : prevHdr' = r.hdr
      ]_vars

\* A second page fetched with the token of the first, in a version tried
\* after a version was abandoned between its pages.
C26_Witness ==
    /\ Len(errs) >= 1
    /\ dropped
    /\ Len(served) = 2
    /\ req.token = "t2"
    /\ prevHdr = "t1"
    /\ req.ver = versions[Len(errs) + 1]


(***************************************************************************)
(* Termination of get_json_paginated_fallback.  The service answers every  *)
(* request, and gives a version at most MaxPages pages with a continuation *)
(* token before it answers with an error or a page without one; the       *)
(* function takes its next step whenever it has one.                       *)
(***************************************************************************)
SpecPagLive == PagSpecInit /\ [][PagNext]_vars /\ WF_vars(PagNext)

\* C27: get_json_paginated_fallback ends, by returning a collection or by
\* SystemExit, when every version is answered by an error or a page without
\* continuation token after finitely many pages: at most one error per
\* version and MaxPages + 1 pages per version are fetched, nothing is
\* requested after the end, and an empty version list fails with no request.
C27_Terminates ==
    /\ <>(pc \in {"returned", "failed"})
    /\ [](/\ Len(errs) <= Len(versions)
          /\ Len(served) <= MaxPages + 1
          /\ pc = "returned" => result # PyNone /\ exitMsg = PyNone
          /\ pc = "failed" => exitMsg # PyNone /\ result = PyNone
          /\ (versions = <<>> /\ pc # "idle") =>
                pc = "failed" /\ req = NoReq /\ errs = <<>> /\ served = <<>>)
    /\ [][(pc \in {"returned", "failed"}) => UNCHANGED pagVars]_vars

\* The longest run: every version but the last abandoned, the last one
\* returned after all its pages.
C27_Witness ==
    /\ pc = "returned"
    /\ Len(versions) = MaxVersions
    /\ Len(errs) = MaxVersions - 1
    /\ Len(served) = MaxPages + 1
    /\ Len(result) = (MaxPages + 1) * MaxChunk

(***************************************************************************)
(* The frame of one merge.                                                 *)
(***************************************************************************)

\* The rank of an outcome in Failed > Blocked > Paused > Active >
\* NotApplicable > Passed, above everything else.
Rank(o) ==
    IF \E i \in DOMAIN Recognised : Recognised[i] = o
    THEN 7 - (CHOOSE i \in DOMAIN Recognised : Recognised[i] = o)
    ELSE 0

\* The buckets there can be: <<top-level suite, test case>>.
BucketKeys(a) == {x \in (DOMAIN a) \X {42, 43} : x[2] \in DOMAIN a[x[1]]}

\* C28: the step that takes one point (the log grows by it) changes only
\* the bucket of <<root ancestor of the point's suite, the point's test
\* case>>; every other bucket is as before and none appears or disappears.
\* In the touched bucket a name already set is kept, the paths before are
\* still there with the path of the point's suite among them, and the rank
\* of the outcome is not lower than before.  A point without test case id
\* changes nothing.
C28_MergeTouchesOneBucket ==
    [][Len(log') = Len(log) + 1 =>
          LET e == log'[Len(log')]
              hit == <<RootOf(msuites, e.sid), TcInt(e.p.tc)>>
          IN  /\ DOMAIN magg' = DOMAIN magg
              /\ ~Truthy(e.p.tc) => magg' = magg
              /\ Truthy(e.p.tc) =>
                    /\ BucketKeys(magg') = BucketKeys(magg) \cup {hit}
                    /\ \A x \in BucketKeys(magg) \ {hit} :
                          magg'[x[1]][x[2]] = magg[x[1]][x[2]]
                    /\ path_for(msuites, e.sid) \in magg'[hit[1]][hit[2]].paths
                    /\ hit \in BucketKeys(magg) =>
                          LET old == magg[hit[1]][hit[2]]
                              new == magg'[hit[1]][hit[2]]
                          IN  /\ Truthy(old.name) => new.name = old.name
                              /\ old.paths \subseteq new.paths
                              /\ Rank(new.outcome) >= Rank(old.outcome)
      ]_vars

\* Two buckets, one of them merged into twice: by a point of another name
\* and a lower outcome than the bucket had.
C28_Witness ==
    /\ Len(log) = MaxPoints
    /\ \E i, j \in DOMAIN log :
          /\ i < j
          /\ Truthy(log[i].p.tc) /\ log[j].p.tc = log[i].p.tc
          /\ Truthy(log[i].p.name) /\ log[j].p.name # log[i].p.name
          /\ Rank(PointOutcome(log[j].p)) < Rank(PointOutcome(log[i].p))
    /\ \E t \in DOMAIN magg : 42 \in DOMAIN magg[t]

(***************************************************************************)
(* Root ancestor and path of the same suite.                               *)
(***************************************************************************)

\* C30: for every listing, one with a parentId that names no listed suite
\* included, top_ancestor does not fail on a lookup and returns the id of a
\* top-level suite, whose name is the first segment of the path that
\* path_for computes for the same suite.
C30_RootAndPathAgree ==
    /\ hpc # "keyerror"
    /\ (hpc = "ready" /\ hcall.fn = "top_ancestor" /\ hret # PyNone) =>
          /\ hret \in {suites[i].id : i \in top_level(suites)}
          /\ Reversed(PartsFrom(suites, hcall.sid))[1] = by_id(suites, hret).name
          /\ cache[Pos(suites, hcall.sid)] \in {PyNone, path_for(suites, hcall.sid)}


=============================================================================
